---------------------------- MODULE Spec2Model ----------------------------
(***************************************************************************)
(* A model of filebyte's file collection and aggregation engine:           *)
(* the shallow and deep directory walkers (src/collect.rs and the copies   *)
(* embedded in src/main.rs), the pattern filter, the sorter, the duplicate *)
(* detector (src/analysis.rs) and the size / permission renderers          *)
(* (src/types.rs, src/utils.rs).                                           *)
(*                                                                         *)
(* Strings are sequences of byte values (ASCII codes), so that Rust's      *)
(* byte-wise String comparison, str::contains, starts_with and ends_with   *)
(* are computed and not assumed.  Option<T> is a sequence of length 0      *)
(* (None) or 1 (Some(x)).                                                  *)
(***************************************************************************)
EXTENDS Integers, Sequences, FiniteSets, TLC

VARIABLES
    fs,         \* the directory tree under the root: node id -> entry
    root,       \* the root directory's own state (readonly, metadata, listing)
    search,     \* Option<String>: the search pattern of the invocation
    excl,       \* Option<String>: the exclusion pattern of the invocation
    sort_by,    \* Option<SortBy>
    op,         \* the operation that produced the current result
    files,      \* Vec<FileInfo> returned by the last collect
    duplicates, \* Vec<(u64, Vec<String>)> built by the last find_duplicates
    arg,        \* the argument of the last pure renderer call
    out,        \* the String the last pure renderer call returned
    analysis,   \* what the last show_detailed_analysis computed and printed
    exit,       \* Option<i32>: the status main ended with, None while it runs
    walk        \* a traversal in progress: its call stack, log and accumulator

vars == <<fs, root, search, excl, sort_by, op, files, duplicates, arg, out,
          analysis, exit, walk>>

None == <<>>
Some(x) == <<x>>
IsSome(o) == Len(o) = 1
Unwrap(o) == o[1]

-----------------------------------------------------------------------------
(* Strings                                                                 *)

\* Ord for Rust String / &str: byte-wise lexicographic comparison.
RECURSIVE StrLess(_, _)
StrLess(a, b) ==
    IF b = <<>> THEN FALSE
    ELSE IF a = <<>> THEN TRUE
    ELSE IF a[1] # b[1] THEN a[1] < b[1]
    ELSE StrLess(Tail(a), Tail(b))

\* str::starts_with / str::ends_with for a string argument.
StartsWith(s, p) == Len(p) <= Len(s) /\ SubSeq(s, 1, Len(p)) = p
EndsWith(s, p) == Len(p) <= Len(s) /\ SubSeq(s, Len(s) - Len(p) + 1, Len(s)) = p

\* str::contains for a string argument: the pattern occurs at some offset.
Contains(s, p) ==
    \E i \in 1..(Len(s) - Len(p) + 1) : SubSeq(s, i, i + Len(p) - 1) = p

\* Decimal digits of n, zero padded to at least w characters.
RECURSIVE Digits(_, _)
Digits(n, w) ==
    IF n < 10 /\ w <= 1 THEN <<48 + n>>
    ELSE Digits(n \div 10, w - 1) \o <<48 + (n % 10)>>

-----------------------------------------------------------------------------
(* The regex crate, on the pattern subset the model's patterns are drawn   *)
(* from:  pattern ::= ['^'] item* ['$'],  item ::= atom ['*'],             *)
(* atom ::= '.' | '[' byte+ ']' | byte.   An unclosed '[' or a '*' with    *)
(* nothing to repeat does not compile; a ']' outside a class is a literal. *)

\* Index of the first ']' at or after i, or 0.
RECURSIVE ClassEnd(_, _)
ClassEnd(p, i) ==
    IF i > Len(p) THEN 0
    ELSE IF p[i] = 93 THEN i
    ELSE ClassEnd(p, i + 1)

\* The items of p from index i up to last, or <<"error">> in front of them.
RECURSIVE ParseItems(_, _, _)
ParseItems(p, i, last) ==
    IF i > last THEN <<>>
    ELSE
        LET close == ClassEnd(p, i + 2)
            atomEnd == IF p[i] = 91 THEN close ELSE i
            bad == \/ p[i] = 42
                   \/ p[i] = 91 /\ (close = 0 \/ close > last)
        IN  IF bad THEN <<[kind |-> "error", set |-> {}, star |-> FALSE]>>
            ELSE
                LET star == atomEnd + 1 <= last /\ p[atomEnd + 1] = 42
                    item == [kind |-> IF p[i] = 46 THEN "any"
                                      ELSE IF p[i] = 91 THEN "class"
                                      ELSE "byte",
                             set  |-> IF p[i] = 91
                                      THEN {p[k] : k \in (i + 1)..(close - 1)}
                                      ELSE {p[i]},
                             star |-> star]
                IN  <<item>> \o ParseItems(p, atomEnd + (IF star THEN 2 ELSE 1), last)

AnchoredStart(p) == Len(p) >= 1 /\ p[1] = 94
AnchoredEnd(p) == Len(p) >= 1 /\ p[Len(p)] = 36 /\ ~(Len(p) = 1 /\ p[1] = 94)

RegexItems(p) ==
    ParseItems(p, IF AnchoredStart(p) THEN 2 ELSE 1,
                  IF AnchoredEnd(p) THEN Len(p) - 1 ELSE Len(p))

\* Regex::new(p).is_ok()
RegexCompiles(p) == \A k \in 1..Len(RegexItems(p)) : RegexItems(p)[k].kind # "error"

AtomMatches(item, c) == item.kind = "any" \/ c \in item.set

\* The items from k on match s from position j on (up to the end if toEnd).
RECURSIVE MatchHere(_, _, _, _, _)
MatchHere(items, k, s, j, toEnd) ==
    IF k > Len(items) THEN (~toEnd \/ j = Len(s) + 1)
    ELSE IF items[k].star
    THEN \/ MatchHere(items, k + 1, s, j, toEnd)
         \/ /\ j <= Len(s)
            /\ AtomMatches(items[k], s[j])
            /\ MatchHere(items, k, s, j + 1, toEnd)
    ELSE /\ j <= Len(s)
         /\ AtomMatches(items[k], s[j])
         /\ MatchHere(items, k + 1, s, j + 1, toEnd)

\* Regex::is_match: an unanchored search unless the pattern anchors it.
RegexIsMatch(p, s) ==
    \E j \in 1..(IF AnchoredStart(p) THEN 1 ELSE Len(s) + 1) :
        MatchHere(RegexItems(p), 1, s, j, AnchoredEnd(p))

-----------------------------------------------------------------------------
(* The filesystem seen by one invocation.  fs maps node ids 1..n to the    *)
(* entries beneath the root; an entry's parent is 0 (the root) or a lower  *)
(* id.  fs::read_dir yields a directory's entries in ascending id, which   *)
(* is an arbitrary order with respect to names, sizes and dates.  A        *)
(* modification time is the broken-down UTC time <<y, mo, d, h, mi, s>>.   *)

Nodes(f) == DOMAIN f

\* Path::is_dir / Path::is_file: fs::metadata succeeds and reports the type.
IsDir(f, i) == f[i].meta_ok /\ f[i].kind = "dir"
IsFile(f, i) == f[i].meta_ok /\ f[i].kind = "file"

\* fs::read_dir(path).is_ok() for the root (d = 0) or the directory d.
ReadDirOk(f, r, d) == IF d = 0 THEN r.listable ELSE f[d].listable

\* The text of the root path handed to the walkers: ".".
RootPath == <<46>>

\* OsStr::to_string_lossy: a byte that no UTF-8 sequence contains (0xF8 to
\* 0xFF) becomes U+FFFD; ASCII is kept.
to_string_lossy(n) == [k \in DOMAIN n |-> IF n[k] >= 248 THEN 65533 ELSE n[k]]

\* entry_path.file_name().unwrap_or_default().to_string_lossy()
file_name(f, i) == to_string_lossy(f[i].name)

\* entry.path(): the directory's path joined with the entry's name by '/'.
RECURSIVE EntryPath(_, _)
EntryPath(f, i) ==
    (IF f[i].parent = 0 THEN RootPath ELSE EntryPath(f, f[i].parent))
        \o <<47>> \o f[i].name

\* Chronological order of broken-down times
RECURSIVE TimeLess(_, _)
TimeLess(a, b) ==
    IF a = <<>> THEN FALSE
    ELSE IF a[1] # b[1] THEN a[1] < b[1]
    ELSE TimeLess(Tail(a), Tail(b))

\* DateTime::<Utc>::from(t).format("%Y-%m-%d %H:%M:%S UTC"): %Y is the year
\* zero-padded to 4 digits, with a leading sign when it is outside 0..9999.
FormatTime(t) ==
    (IF t[1] > 9999 THEN <<43>> ELSE <<>>) \o Digits(t[1], 4)
        \o <<45>> \o Digits(t[2], 2) \o <<45>> \o Digits(t[3], 2)
        \o <<32>> \o Digits(t[4], 2) \o <<58>> \o Digits(t[5], 2)
        \o <<58>> \o Digits(t[6], 2) \o <<32, 85, 84, 67>>

\* metadata.modified().ok().map(format) and the same for created().
FormatOptTime(o) == IF IsSome(o) THEN Some(FormatTime(Unwrap(o))) ELSE None

\* A variant of can_delete that trusts a parent whose metadata is unreadable.
can_delete_unreadable_parent(f, r, i) ==
    LET p == f[i].parent
    IN  IF p = 0 THEN ~r.readonly ELSE ~f[p].readonly

\* can_delete: the parent's metadata is readable and not read-only.
can_delete(f, r, i) ==
    LET p == f[i].parent
    IN  IF p = 0 THEN r.meta_ok /\ ~r.readonly
        ELSE f[p].meta_ok /\ ~f[p].readonly

\* The compact permission summary of a record: "r-x", "r--", "rwx", "rw-".
permissions(f, r, i) ==
    IF f[i].readonly
    THEN (IF can_delete(f, r, i) THEN <<114, 45, 120>> ELSE <<114, 45, 45>>)
    ELSE (IF can_delete(f, r, i) THEN <<114, 119, 120>> ELSE <<114, 119, 45>>)

\* A variant of get_file_size that adds up a directory's own files only.
get_file_size_direct(f, i) ==
    LET own(k) == IF f[k].parent = i /\ IsFile(f, k) THEN f[k].len ELSE 0
        RECURSIVE from(_)
        from(k) == IF k > Len(f) THEN 0 ELSE own(k) + from(k + 1)
    IN  IF IsFile(f, i) THEN f[i].len
        ELSE IF IsDir(f, i) /\ f[i].listable THEN from(i + 1)
        ELSE 0

\* get_file_size: a file's length, a directory's recursive total, else 0.
\* SizeFrom(f, d, i) is the loop over the entries of d from id i on.
RECURSIVE SizeFrom(_, _, _)
get_file_size(f, i) ==
    IF IsFile(f, i) THEN f[i].len
    ELSE IF IsDir(f, i)
    THEN (IF f[i].listable THEN SizeFrom(f, i, i + 1) ELSE 0)
    ELSE 0
SizeFrom(f, d, i) ==
    IF i > Len(f) THEN 0
    ELSE (IF f[i].parent = d THEN get_file_size(f, i) ELSE 0) + SizeFrom(f, d, i + 1)

-----------------------------------------------------------------------------
(* The size renderer (types.rs; main.rs holds an identical copy).  A u64   *)
(* is its seven base-1024 digits, least significant first, so that 1024^4  *)
(* and u64::MAX are exact.                                                 *)

\* 1024u64.pow(k)
pow1024(k) == [j \in 1..7 |-> IF j = k + 1 THEN 1 ELSE 0]

\* a < b on u64, comparing from digit j down.
RECURSIVE U64LessFrom(_, _, _)
U64LessFrom(a, b, j) ==
    IF j = 0 THEN FALSE
    ELSE IF a[j] # b[j] THEN a[j] < b[j]
    ELSE U64LessFrom(a, b, j - 1)

u64_ge(a, b) == ~U64LessFrom(a, b, 7)
u64_gt(a, b) == U64LessFrom(b, a, 7)

\* The remainder of (digits 7..j of d) divided by 10.
RECURSIVE RemTen(_, _)
RemTen(d, j) == IF j > 7 THEN 0 ELSE (RemTen(d, j + 1) * 1024 + d[j]) % 10

\* "{}" of a u64: its decimal digits.
RECURSIVE DecimalDigits(_)
DecimalDigits(d) ==
    IF \A j \in 1..7 : d[j] = 0 THEN <<>>
    ELSE DecimalDigits([j \in 1..7 |-> (RemTen(d, j + 1) * 1024 + d[j]) \div 10])
            \o <<48 + RemTen(d, 1)>>
Decimal(d) == IF \A j \in 1..7 : d[j] = 0 THEN <<48>> ELSE DecimalDigits(d)

\* The integer part of d / 1024^k: the digits above the k lowest.
RECURSIVE WholeFrom(_, _)
WholeFrom(d, j) == IF j > 7 THEN 0 ELSE d[j] + 1024 * WholeFrom(d, j + 1)

\* 100 * (the k lowest digits of d) as carry out of digit j and digit left.
RECURSIVE Carry100(_, _)
Carry100(d, j) == IF j = 0 THEN 0 ELSE (d[j] * 100 + Carry100(d, j - 1)) \div 1024
Left100(d, j) == (d[j] * 100 + Carry100(d, j - 1)) % 1024

\* "{:.2}" of `bytes as f64 / 1024^k`: the quotient in hundredths, rounded
\* half to even on its exact value.  (The conversion to f64 is exact below
\* 2^53; above it, on the byte counts drawn here, it leaves the two
\* decimals of the exact quotient unchanged.)
Hundredths(d, k) ==
    LET floor == WholeFrom(d, k + 1) * 100 + Carry100(d, k)
        lowZero == \A j \in 1..(k - 1) : Left100(d, j) = 0
        above == Left100(d, k) > 512 \/ (Left100(d, k) = 512 /\ ~lowZero)
        half == Left100(d, k) = 512 /\ lowZero
    IN  IF above \/ (half /\ floor % 2 = 1) THEN floor + 1 ELSE floor

Fixed2(d, k) ==
    Digits(Hundredths(d, k) \div 100, 1) \o <<46>> \o Digits(Hundredths(d, k) % 100, 2)

\* SizeUnit::format_size
format_size(unit, bytes) ==
    CASE unit = "Bytes" -> Decimal(bytes) \o <<32, 66>>
      [] unit = "Kilobytes" -> Fixed2(bytes, 1) \o <<32, 75, 66>>
      [] unit = "Megabytes" -> Fixed2(bytes, 2) \o <<32, 77, 66>>
      [] unit = "Gigabytes" -> Fixed2(bytes, 3) \o <<32, 71, 66>>
      [] unit = "Terabytes" -> Fixed2(bytes, 4) \o <<32, 84, 66>>

\* The `units` table of auto_format_size.
units ==
    << [unit |-> "Terabytes", threshold |-> pow1024(4)],
       [unit |-> "Gigabytes", threshold |-> pow1024(3)],
       [unit |-> "Megabytes", threshold |-> pow1024(2)],
       [unit |-> "Kilobytes", threshold |-> pow1024(1)],
       [unit |-> "Bytes", threshold |-> pow1024(0)] >>

\* A variant of the loop whose test is `bytes > *threshold`.
RECURSIVE auto_format_from_strict(_, _)
auto_format_from_strict(bytes, n) ==
    IF n > Len(units) THEN Decimal(bytes) \o <<32, 66>>
    ELSE IF u64_gt(bytes, units[n].threshold)
    THEN format_size(units[n].unit, bytes)
    ELSE auto_format_from_strict(bytes, n + 1)

\* The loop of auto_format_size from table row n on, and its fall-through.
RECURSIVE auto_format_from(_, _)
auto_format_from(bytes, n) ==
    IF n > Len(units) THEN Decimal(bytes) \o <<32, 66>>
    ELSE IF u64_ge(bytes, units[n].threshold)
    THEN format_size(units[n].unit, bytes)
    ELSE auto_format_from(bytes, n + 1)

\* SizeUnit::auto_format_size
auto_format_size(bytes) == auto_format_from(bytes, 1)

\* A count below 2^31 as a u64.
ToU64(n) ==
    [j \in 1..7 |->
        IF j = 1 THEN n % 1024
        ELSE IF j = 2 THEN (n \div 1024) % 1024
        ELSE IF j = 3 THEN (n \div 1048576) % 1024
        ELSE IF j = 4 THEN n \div 1073741824
        ELSE 0]

\* u64::MAX
u64_MAX == [j \in 1..7 |-> IF j = 7 THEN 15 ELSE 1023]

\* a + b on u64: the wrapped sum and whether it overflowed.
RECURSIVE AddCarry(_, _, _)
AddCarry(a, b, j) ==
    IF j = 0 THEN 0 ELSE (a[j] + b[j] + AddCarry(a, b, j - 1)) \div 1024
u64_add(a, b) ==
    [value |-> [j \in 1..7 |->
                    IF j = 7 THEN (a[j] + b[j] + AddCarry(a, b, j - 1)) % 16
                    ELSE (a[j] + b[j] + AddCarry(a, b, j - 1)) % 1024],
     overflow |-> a[7] + b[7] + AddCarry(a, b, 6) >= 16]

-----------------------------------------------------------------------------
(* The permission renderer (utils.rs; main.rs holds an identical copy).    *)
(* `mode` is st_mode: the file type in bits 12..15 above the twelve        *)
(* permission bits.                                                        *)

\* mode & mask != 0, for a mask of one bit.
BitSet(mode, mask) == (mode \div mask) % 2 = 1

\* Metadata::is_dir: (mode & S_IFMT) == S_IFDIR.
mode_is_dir(mode) == (mode \div 4096) % 16 = 4

\* Permissions::readonly: mode & 0o222 == 0.
mode_readonly(mode) == ~BitSet(mode, 128) /\ ~BitSet(mode, 16) /\ ~BitSet(mode, 2)

\* A variant of the probe that takes the empty path for an entry of a
\* writable directory.
can_delete_cwd == TRUE

\* can_delete(Path::new("")): the empty path has no parent.
can_delete_empty_path == FALSE

\* A variant of the detailed branch that reads the group bits for `other`.
format_unix_permissions_group_twice(mode, detailed) ==
    <<IF mode_is_dir(mode) THEN 100 ELSE 45,
      IF BitSet(mode, 256) THEN 114 ELSE 45,
      IF BitSet(mode, 128) THEN 119 ELSE 45,
      IF BitSet(mode, 64) THEN 120 ELSE 45,
      IF BitSet(mode, 32) THEN 114 ELSE 45,
      IF BitSet(mode, 16) THEN 119 ELSE 45,
      IF BitSet(mode, 8) THEN 120 ELSE 45,
      IF BitSet(mode, 32) THEN 114 ELSE 45,
      IF BitSet(mode, 16) THEN 119 ELSE 45,
      IF BitSet(mode, 8) THEN 120 ELSE 45>>

\* format_unix_permissions
format_unix_permissions(mode, detailed) ==
    IF detailed
    THEN <<IF mode_is_dir(mode) THEN 100 ELSE 45,
           IF BitSet(mode, 256) THEN 114 ELSE 45,
           IF BitSet(mode, 128) THEN 119 ELSE 45,
           IF BitSet(mode, 64) THEN 120 ELSE 45,
           IF BitSet(mode, 32) THEN 114 ELSE 45,
           IF BitSet(mode, 16) THEN 119 ELSE 45,
           IF BitSet(mode, 8) THEN 120 ELSE 45,
           IF BitSet(mode, 4) THEN 114 ELSE 45,
           IF BitSet(mode, 2) THEN 119 ELSE 45,
           IF BitSet(mode, 1) THEN 120 ELSE 45>>
    ELSE IF mode_readonly(mode)
    THEN (IF can_delete_empty_path THEN <<114, 45, 120>> ELSE <<114, 45, 45>>)
    ELSE (IF can_delete_empty_path THEN <<114, 119, 120>> ELSE <<114, 119, 45>>)

-----------------------------------------------------------------------------
(* The pattern filter                                                      *)

\* The heuristic that classifies a search pattern as a regular expression.
looks_like_regex(p) ==
    \/ StartsWith(p, <<94>>)
    \/ EndsWith(p, <<36>>)
    \/ Contains(p, <<46, 42>>)
    \/ Contains(p, <<91>>)
    \/ Contains(p, <<93>>)

\* A variant of `matches` that always takes the regex branch.
matches_always_regex(p, name) ==
    IF RegexCompiles(p) THEN RegexIsMatch(p, name) ELSE FALSE

\* `matches`: a regex search when the pattern looks like one (never matching
\* when it does not compile), a substring search otherwise.
matches(p, name) ==
    IF looks_like_regex(p)
    THEN (IF RegexCompiles(p) THEN RegexIsMatch(p, name) ELSE FALSE)
    ELSE Contains(name, p)

\* `should_collect`: TRUE without a search pattern.
should_collect(sp, name) == IF IsSome(sp) THEN matches(Unwrap(sp), name) ELSE TRUE

\* A variant of excluding_regex where a pattern that does not compile
\* excludes every name.
excluding_regex_rejecting(ex) ==
    IF IsSome(ex) /\ ~RegexCompiles(Unwrap(ex)) THEN Some(<<46>>) ELSE ex

\* excluding_pattern.and_then(|p| Regex::new(p).ok())
excluding_regex(ex) == IF IsSome(ex) /\ RegexCompiles(Unwrap(ex)) THEN ex ELSE None

\* The exclusion test that `continue`s the loop.
is_excluded(rx, name) == IsSome(rx) /\ RegexIsMatch(Unwrap(rx), name)

-----------------------------------------------------------------------------
(* The metadata normalizer                                                 *)

\* A variant of FileInfo whose file_type is always what infer makes of the
\* entry, a directory included.
FileInfo_inferred_type(f, r, i, size) ==
    [name         |-> file_name(f, i),
     path         |-> to_string_lossy(EntryPath(f, i)),
     size         |-> size,
     size_human   |-> auto_format_size(ToU64(size)),
     file_type    |-> f[i].mime,
     created      |-> FormatOptTime(f[i].ctime),
     modified     |-> FormatOptTime(f[i].mtime),
     permissions  |-> permissions(f, r, i),
     is_directory |-> IsDir(f, i)]

\* The FileInfo pushed for entry i, with the size the caller computed.
FileInfo(f, r, i, size) ==
    [name         |-> file_name(f, i),
     path         |-> to_string_lossy(EntryPath(f, i)),
     size         |-> size,
     size_human   |-> auto_format_size(ToU64(size)),
     file_type    |-> IF IsDir(f, i) THEN "directory" ELSE f[i].mime,
     created      |-> FormatOptTime(f[i].ctime),
     modified     |-> FormatOptTime(f[i].mtime),
     permissions  |-> permissions(f, r, i),
     is_directory |-> IsDir(f, i)]

-----------------------------------------------------------------------------
(* The directory walkers.  Each operator is the `for entry in entries`     *)
(* loop of directory d, from id i on; it returns what the loop pushes.     *)

\* collect.rs, collect_files::collect_recursive (shallow).
RECURSIVE collect_recursive(_, _, _, _, _, _)
collect_recursive(f, r, d, i, sp, rx) ==
    IF i > Len(f) \/ ~ReadDirOk(f, r, d) THEN <<>>
    ELSE
        LET here ==
                IF f[i].parent # d THEN <<>>
                ELSE IF is_excluded(rx, file_name(f, i)) THEN <<>>
                ELSE IF ~f[i].meta_ok THEN <<>>
                ELSE IF should_collect(sp, file_name(f, i))
                THEN <<FileInfo(f, r, i, get_file_size(f, i))>>
                ELSE <<>>
        IN  here \o collect_recursive(f, r, d, i + 1, sp, rx)

\* A variant of collect.rs's deep loop that leaves the directory at the
\* first entry whose metadata cannot be read.
RECURSIVE collect_all_recursive_break(_, _, _, _, _, _)
collect_all_recursive_break(f, r, d, i, sp, rx) ==
    IF i > Len(f) \/ ~ReadDirOk(f, r, d) THEN <<>>
    ELSE IF f[i].parent = d /\ ~is_excluded(rx, file_name(f, i)) /\ ~f[i].meta_ok THEN <<>>
    ELSE
        LET here ==
                IF f[i].parent # d THEN <<>>
                ELSE IF is_excluded(rx, file_name(f, i)) THEN <<>>
                ELSE (IF should_collect(sp, file_name(f, i))
                      THEN <<FileInfo(f, r, i, get_file_size(f, i))>>
                      ELSE <<>>)
                     \o (IF IsDir(f, i)
                         THEN collect_all_recursive_break(f, r, i, i + 1, sp, rx)
                         ELSE <<>>)
        IN  here \o collect_all_recursive_break(f, r, d, i + 1, sp, rx)

\* collect.rs, collect_files_recursive::collect_all_recursive (deep): the
\* descent is inside the metadata branch and outside the search test.
RECURSIVE collect_all_recursive(_, _, _, _, _, _)
collect_all_recursive(f, r, d, i, sp, rx) ==
    IF i > Len(f) \/ ~ReadDirOk(f, r, d) THEN <<>>
    ELSE
        LET here ==
                IF f[i].parent # d THEN <<>>
                ELSE IF is_excluded(rx, file_name(f, i)) THEN <<>>
                ELSE IF ~f[i].meta_ok THEN <<>>
                ELSE (IF should_collect(sp, file_name(f, i))
                      THEN <<FileInfo(f, r, i, get_file_size(f, i))>>
                      ELSE <<>>)
                     \o (IF IsDir(f, i)
                         THEN collect_all_recursive(f, r, i, i + 1, sp, rx)
                         ELSE <<>>)
        IN  here \o collect_all_recursive(f, r, d, i + 1, sp, rx)

\* main.rs, collect_files::collect_recursive (shallow): the search test
\* `continue`s before the metadata is read.
RECURSIVE main_collect_recursive(_, _, _, _, _, _)
main_collect_recursive(f, r, d, i, sp, rx) ==
    IF i > Len(f) \/ ~ReadDirOk(f, r, d) THEN <<>>
    ELSE
        LET here ==
                IF f[i].parent # d THEN <<>>
                ELSE IF is_excluded(rx, file_name(f, i)) THEN <<>>
                ELSE IF ~should_collect(sp, file_name(f, i)) THEN <<>>
                ELSE IF ~f[i].meta_ok THEN <<>>
                ELSE <<FileInfo(f, r, i, get_file_size(f, i))>>
        IN  here \o main_collect_recursive(f, r, d, i + 1, sp, rx)

\* main.rs, collect_files_recursive::collect_all_recursive (deep): size is
\* metadata.len(), and an entry that fails the search is not descended into.
RECURSIVE main_collect_all_recursive(_, _, _, _, _, _)
main_collect_all_recursive(f, r, d, i, sp, rx) ==
    IF i > Len(f) \/ ~ReadDirOk(f, r, d) THEN <<>>
    ELSE
        LET here ==
                IF f[i].parent # d THEN <<>>
                ELSE IF is_excluded(rx, file_name(f, i)) THEN <<>>
                ELSE IF ~should_collect(sp, file_name(f, i)) THEN <<>>
                ELSE IF ~f[i].meta_ok THEN <<>>
                ELSE <<FileInfo(f, r, i, f[i].len)>>
                     \o (IF IsDir(f, i)
                         THEN main_collect_all_recursive(f, r, i, i + 1, sp, rx)
                         ELSE <<>>)
        IN  here \o main_collect_all_recursive(f, r, d, i + 1, sp, rx)

-----------------------------------------------------------------------------
(* The sorter                                                              *)

\* Ord::cmp on strings and on u64.
cmp_str(a, b) == IF StrLess(a, b) THEN "Less" ELSE IF a = b THEN "Equal" ELSE "Greater"
cmp_u64(a, b) == IF a < b THEN "Less" ELSE IF a = b THEN "Equal" ELSE "Greater"

\* The closure of SortBy::Name.
by_name(a, b) ==
    CASE a.is_directory /\ ~b.is_directory -> "Less"
      [] ~a.is_directory /\ b.is_directory -> "Greater"
      [] OTHER -> cmp_str(a.name, b.name)

\* A variant of the Size closure that compares sizes only.
by_size_unpartitioned(a, b) == cmp_u64(b.size, a.size)

\* A variant of the Size closure that orders sizes ascending.
by_size_ascending(a, b) ==
    CASE a.is_directory /\ ~b.is_directory -> "Less"
      [] ~a.is_directory /\ b.is_directory -> "Greater"
      [] OTHER -> cmp_u64(a.size, b.size)

\* The closure of SortBy::Size.
by_size(a, b) ==
    CASE a.is_directory /\ ~b.is_directory -> "Less"
      [] ~a.is_directory /\ b.is_directory -> "Greater"
      [] OTHER -> cmp_u64(b.size, a.size)

\* a.modified.as_ref().map(|s| s.as_str()).unwrap_or("")
date_key(a) == IF IsSome(a.modified) THEN Unwrap(a.modified) ELSE <<>>

\* The closure of SortBy::Date.
by_date(a, b) ==
    CASE a.is_directory /\ ~b.is_directory -> "Less"
      [] ~a.is_directory /\ b.is_directory -> "Greater"
      [] OTHER -> cmp_str(date_key(b), date_key(a))

\* A variant of the `else` closure that leaves the walk's order alone.
by_default_unsorted(a, b) == "Equal"

\* The closure of the `else` branch, taken when no criterion is given.
by_default(a, b) ==
    CASE a.is_directory /\ ~b.is_directory -> "Less"
      [] ~a.is_directory /\ b.is_directory -> "Greater"
      [] OTHER -> cmp_str(a.name, b.name)

\* The closure the `match` selects.
compare(crit, a, b) ==
    CASE crit = "Name" -> by_name(a, b)
      [] crit = "Size" -> by_size(a, b)
      [] crit = "Date" -> by_date(a, b)
      [] OTHER -> by_default(a, b)

\* A variant of the insertion that puts x in front of the elements it
\* compares Equal to.
RECURSIVE InsertBeforeEqual(_, _, _)
InsertBeforeEqual(s, x, crit) ==
    IF s = <<>> THEN <<x>>
    ELSE IF compare(crit, x, s[Len(s)]) # "Greater"
    THEN Append(InsertBeforeEqual(SubSeq(s, 1, Len(s) - 1), x, crit), s[Len(s)])
    ELSE Append(s, x)

\* slice::sort_by is a stable sort: x goes behind every element that does
\* not compare greater than it.
RECURSIVE InsertStable(_, _, _)
InsertStable(s, x, crit) ==
    IF s = <<>> THEN <<x>>
    ELSE IF compare(crit, x, s[Len(s)]) = "Less"
    THEN Append(InsertStable(SubSeq(s, 1, Len(s) - 1), x, crit), s[Len(s)])
    ELSE Append(s, x)

RECURSIVE StableSort(_, _)
StableSort(s, crit) ==
    IF s = <<>> THEN <<>>
    ELSE InsertStable(StableSort(SubSeq(s, 1, Len(s) - 1), crit), s[Len(s)], crit)

\* The records of sorted sequence t from position k on, less each one that
\* compares Equal to the record before it.
RECURSIVE DedupFrom(_, _, _)
DedupFrom(t, crit, k) ==
    IF k > Len(t) THEN <<>>
    ELSE (IF k > 1 /\ compare(crit, t[k - 1], t[k]) = "Equal" THEN <<>> ELSE <<t[k]>>)
         \o DedupFrom(t, crit, k + 1)

\* A variant of the sort block that keeps one record of each run of records
\* that compare Equal.
sort_files_dedup(s, sb) ==
    DedupFrom(StableSort(s, IF IsSome(sb) THEN Unwrap(sb) ELSE "default"),
              IF IsSome(sb) THEN Unwrap(sb) ELSE "default", 1)

\* The `if let Some(sort_criteria) = sort_by { match ... } else { ... }` block.
sort_files(s, sb) == StableSort(s, IF IsSome(sb) THEN Unwrap(sb) ELSE "default")

\* A variant of collect_files whose walker descends into subdirectories.
collect_files_descending(f, r, sp, ex, sb) ==
    sort_files(collect_all_recursive(f, r, 0, 1, sp, excluding_regex(ex)), sb)

\* collect.rs: collect_files and collect_files_recursive.
collect_files(f, r, sp, ex, sb) ==
    sort_files(collect_recursive(f, r, 0, 1, sp, excluding_regex(ex)), sb)
collect_files_recursive(f, r, sp, ex, sb) ==
    sort_files(collect_all_recursive(f, r, 0, 1, sp, excluding_regex(ex)), sb)

\* main.rs: collect_files and collect_files_recursive.
main_collect_files(f, r, sp, ex, sb) ==
    sort_files(main_collect_recursive(f, r, 0, 1, sp, excluding_regex(ex)), sb)
main_collect_files_recursive(f, r, sp, ex, sb) ==
    sort_files(main_collect_all_recursive(f, r, 0, 1, sp, excluding_regex(ex)), sb)

-----------------------------------------------------------------------------
(* The aggregator show_detailed_analysis (analysis.rs; main.rs holds an    *)
(* identical copy).  Its records carry their size as a u64.                *)

\* Range<u64>::contains: start <= x < end.
range_contains(range, x) == u64_ge(x, range.start) /\ U64LessFrom(x, range.end, 7)

\* The `size_ranges` table.
size_ranges ==
    << [label |-> "Empty (0 B)", start |-> ToU64(0), end |-> ToU64(1)],
       [label |-> "Tiny (< 1 KB)", start |-> ToU64(1), end |-> ToU64(1024)],
       [label |-> "Small (1 KB - 1 MB)", start |-> ToU64(1024), end |-> ToU64(1024 * 1024)],
       [label |-> "Medium (1 MB - 100 MB)", start |-> ToU64(1024 * 1024),
        end |-> ToU64(100 * 1024 * 1024)],
       [label |-> "Large (100 MB - 1 GB)", start |-> ToU64(100 * 1024 * 1024),
        end |-> ToU64(1024 * 1024 * 1024)],
       [label |-> "Huge (> 1 GB)", start |-> ToU64(1024 * 1024 * 1024), end |-> u64_MAX] >>

\* The `age_ranges` table.
age_ranges ==
    << [label |-> "Today", start |-> ToU64(0), end |-> ToU64(86400)],
       [label |-> "This Week", start |-> ToU64(86400), end |-> ToU64(604800)],
       [label |-> "This Month", start |-> ToU64(604800), end |-> ToU64(2592000)],
       [label |-> "This Year", start |-> ToU64(2592000), end |-> ToU64(31536000)],
       [label |-> "Older", start |-> ToU64(31536000), end |-> u64_MAX] >>

\* files.iter().map(|f| f.size).sum(): the wrapped total from record k on
\* and whether an addition overflowed.
RECURSIVE total_size_from(_, _)
total_size_from(recs, k) ==
    IF k > Len(recs) THEN [value |-> ToU64(0), overflow |-> FALSE]
    ELSE LET rest == total_size_from(recs, k + 1)
             sum == u64_add(recs[k].size, rest.value)
         IN  [value |-> sum.value, overflow |-> rest.overflow \/ sum.overflow]

\* max_by_key(|f| f.size) over the non-directories from record k on, `best`
\* being the index kept so far (0: none): the last maximum wins.
RECURSIVE largest_from(_, _, _)
largest_from(recs, k, best) ==
    IF k > Len(recs) THEN best
    ELSE IF recs[k].is_directory THEN largest_from(recs, k + 1, best)
    ELSE IF best = 0 \/ u64_ge(recs[k].size, recs[best].size)
    THEN largest_from(recs, k + 1, k)
    ELSE largest_from(recs, k + 1, best)

\* A variant of smallest_from that keeps the empty files.
RECURSIVE smallest_from_any(_, _, _)
smallest_from_any(recs, k, best) ==
    IF k > Len(recs) THEN best
    ELSE IF recs[k].is_directory
    THEN smallest_from_any(recs, k + 1, best)
    ELSE IF best = 0 \/ U64LessFrom(recs[k].size, recs[best].size, 7)
    THEN smallest_from_any(recs, k + 1, k)
    ELSE smallest_from_any(recs, k + 1, best)

\* min_by_key(|f| f.size) over the non-directories of size > 0 from record k
\* on: the first minimum wins.
RECURSIVE smallest_from(_, _, _)
smallest_from(recs, k, best) ==
    IF k > Len(recs) THEN best
    ELSE IF recs[k].is_directory \/ ~u64_gt(recs[k].size, ToU64(0))
    THEN smallest_from(recs, k + 1, best)
    ELSE IF best = 0 \/ U64LessFrom(recs[k].size, recs[best].size, 7)
    THEN smallest_from(recs, k + 1, k)
    ELSE smallest_from(recs, k + 1, best)

\* The lines a distribution prints: one per table row whose count is not 0.
printed_buckets(table, counted) ==
    SelectSeq([n \in DOMAIN table |->
                  [label |-> table[n].label, count |-> Cardinality(counted[n])]],
              LAMBDA line : line.count > 0)

\* modified_str.replace(" UTC", ""): every occurrence removed.
RECURSIVE replace_utc(_)
replace_utc(s) ==
    IF s = <<>> THEN <<>>
    ELSE IF Len(s) >= 4 /\ SubSeq(s, 1, 4) = <<32, 85, 84, 67>>
    THEN replace_utc(SubSeq(s, 5, Len(s)))
    ELSE <<s[1]>> \o replace_utc(Tail(s))

\* The number written by the decimal digits s[i..j], or -1.
RECURSIVE scan_number(_, _, _)
scan_number(s, i, j) ==
    IF j < i THEN 0
    ELSE IF s[j] \notin 48..57 \/ scan_number(s, i, j - 1) < 0 THEN -1
    ELSE 10 * scan_number(s, i, j - 1) + (s[j] - 48)

IsLeap(y) == (y % 4 = 0 /\ y % 100 # 0) \/ y % 400 = 0
DaysInMonth(y, m) ==
    IF m = 2 THEN (IF IsLeap(y) THEN 29 ELSE 28)
    ELSE IF m \in {4, 6, 9, 11} THEN 30 ELSE 31

\* chrono::DateTime::parse_from_rfc3339 on the texts the aggregator builds:
\* "YYYY-MM-DD", a separator, "hh:mm:ss" and "Z".  The separator is 'T' or
\* 't'; chrono releases differ on whether a blank is one too (lenient).
parse_from_rfc3339(s, lenient) ==
    IF Len(s) # 20 THEN None
    ELSE LET y == scan_number(s, 1, 4)
             mo == scan_number(s, 6, 7)
             d == scan_number(s, 9, 10)
             h == scan_number(s, 12, 13)
             mi == scan_number(s, 15, 16)
             sec == scan_number(s, 18, 19)
         IN  IF /\ s[5] = 45 /\ s[8] = 45 /\ s[14] = 58 /\ s[17] = 58
                /\ s[11] \in (IF lenient THEN {84, 116, 32} ELSE {84, 116})
                /\ s[20] \in {90, 122}
                /\ y >= 0 /\ mo \in 1..12 /\ h \in 0..23 /\ mi \in 0..59 /\ sec \in 0..59
                /\ d >= 1 /\ d <= DaysInMonth(y, mo)
             THEN Some(<<y, mo, d, h, mi, sec>>)
             ELSE None

\* The days from 1970-01-01 to the date of t.
DaysFromCivil(t) ==
    LET y == IF t[2] <= 2 THEN t[1] - 1 ELSE t[1]
        era == y \div 400
        yoe == y - era * 400
        doy == (153 * (IF t[2] > 2 THEN t[2] - 3 ELSE t[2] + 9) + 2) \div 5 + t[3] - 1
        doe == yoe * 365 + yoe \div 4 - yoe \div 100 + doy
    IN  era * 146097 + doe - 719468

\* A variant of duration_secs that counts whole days only.
duration_secs_whole_days(now, t) ==
    IF TimeLess(now, t) THEN 0
    ELSE (DaysFromCivil(now) - DaysFromCivil(t)) * 86400

\* now.duration_since(t).unwrap_or_default().as_secs(): the whole seconds
\* from t to now, 0 when t is later than now.
duration_secs(now, t) ==
    IF TimeLess(now, t) THEN 0
    ELSE (DaysFromCivil(now) - DaysFromCivil(t)) * 86400
            + (now[4] - t[4]) * 3600 + (now[5] - t[5]) * 60 + (now[6] - t[6])

\* The filter closure of the age distribution.
age_counted(f, range, now, lenient) ==
    IF IsSome(f.modified)
    THEN LET modified_time ==
                 parse_from_rfc3339(replace_utc(Unwrap(f.modified)) \o <<90>>, lenient)
         IN  IF IsSome(modified_time)
             THEN range_contains(range, ToU64(duration_secs(now, Unwrap(modified_time))))
             ELSE FALSE
    ELSE FALSE

\* "{:.1}" of count as f64 / total as f64 * 100.0, in tenths of a percent.
percentage(count, total) ==
    LET q == (count * 1000) \div total
        r == (count * 1000) % total
    IN  IF 2 * r > total \/ (2 * r = total /\ q % 2 = 1) THEN q + 1 ELSE q

\* permissions.contains(c)
has_char(str, c) == \E p \in DOMAIN str : str[p] = c

\* show_detailed_analysis past the totals: what it counts and prints.
show_detailed_analysis(recs, now, lenient) ==
    LET all == DOMAIN recs
        total_files == Len(recs)
        total_dirs == Cardinality({k \in all : recs[k].is_directory})
        size_counted == [n \in DOMAIN size_ranges |->
                            {k \in all : range_contains(size_ranges[n], recs[k].size)}]
        age_members == [n \in DOMAIN age_ranges |->
                            {k \in all : age_counted(recs[k], age_ranges[n], now, lenient)}]
        lines(table, counted) ==
            LET printed == printed_buckets(table, counted)
            IN  [n \in DOMAIN printed |->
                    [label |-> printed[n].label,
                     count |-> printed[n].count,
                     percentage |-> percentage(printed[n].count, total_files)]]
        largest == largest_from(recs, 1, 0)
        smallest == smallest_from(recs, 1, 0)
        count(S) == [count |-> Cardinality(S),
                     percentage |-> IF total_files = 0 THEN "NaN"
                                    ELSE percentage(Cardinality(S), total_files)]
    IN  [panicked |-> FALSE,
         now |-> now,
         files |-> recs,
         total_files |-> total_files,
         total_regular_files |-> total_files - total_dirs,
         total_dirs |-> total_dirs,
         size_counted |-> size_counted,
         size_distribution |-> lines(size_ranges, size_counted),
         age_counted |-> age_members,
         age_distribution |-> lines(age_ranges, age_members),
         largest |-> IF largest = 0 THEN None ELSE Some(largest),
         smallest |-> IF smallest = 0 THEN None ELSE Some(smallest),
         readable |-> count({k \in all : has_char(recs[k].permissions, 114)}),
         writable |-> count({k \in all : has_char(recs[k].permissions, 119)}),
         readable_only |-> count({k \in all : recs[k].permissions = <<114>>}),
         writable_only |-> count({k \in all : recs[k].permissions = <<114, 119>>})]

-----------------------------------------------------------------------------
(* The duplicate detector (analysis.rs; main.rs holds an identical copy)   *)

\* scan_for_duplicates: the paths pushed, with their sizes, in visit order.
RECURSIVE scan_for_duplicates(_, _, _, _)
scan_for_duplicates(f, r, d, i) ==
    IF i > Len(f) \/ ~ReadDirOk(f, r, d) THEN <<>>
    ELSE
        LET here ==
                IF f[i].parent # d THEN <<>>
                ELSE IF IsFile(f, i)
                THEN <<[size |-> f[i].len, path |-> to_string_lossy(EntryPath(f, i))]>>
                ELSE IF IsDir(f, i) THEN scan_for_duplicates(f, r, i, i + 1)
                ELSE <<>>
        IN  here \o scan_for_duplicates(f, r, d, i + 1)

\* hash_map[size]: the Vec of paths pushed under that key, in push order.
RECURSIVE PathsOfSize(_, _)
PathsOfSize(pushed, size) ==
    IF pushed = <<>> THEN <<>>
    ELSE (IF pushed[1].size = size THEN <<pushed[1].path>> ELSE <<>>)
         \o PathsOfSize(Tail(pushed), size)

\* The keys of hash_map.
HashKeys(pushed) == {pushed[k].size : k \in 1..Len(pushed)}

\* A variant of the group test that also passes a Vec of one path.
DuplicateKeysFromOne(pushed) ==
    {z \in HashKeys(pushed) : Len(PathsOfSize(pushed, z)) >= 1}

\* The keys whose Vec passes `paths.len() > 1`.
DuplicateKeys(pushed) == {z \in HashKeys(pushed) : Len(PathsOfSize(pushed, z)) > 1}

\* The orders in which hash_map.iter() can visit a set of keys: any.
Orders(S) == {q \in [1..Cardinality(S) -> S] : \A z \in S : \E k \in DOMAIN q : q[k] = z}

-----------------------------------------------------------------------------
(* Bounds and input domains                                                *)

\* The largest number of entries beneath the root.
MaxEntries == 3
\* The largest number of entries beneath the root of a tree that is scanned
\* for duplicates.
MaxDupEntries == 4
\* The largest byte length of a file (and of a directory's own metadata).
MaxLen == 1

\* File names: "a", "A", ".a".
Names == {<<97>>, <<65>>, <<46, 97>>}
\* The name of entry i where names do not matter: "a", "b", "c", ...
IdName(i) == <<96 + i>>

\* Search patterns: none, "a" and "." (substrings), "^a" (regex),
\* "[" (looks like a regex and does not compile).
SearchPatterns == {None, Some(<<97>>), Some(<<46>>), Some(<<94, 97>>), Some(<<91>>)}
\* Exclusion patterns: none, "^a" and "." (always regexes), "[" (invalid).
ExclPatterns == {None, Some(<<94, 97>>), Some(<<46>>), Some(<<91>>)}

SortOptions == {None, Some("Name"), Some("Size"), Some("Date")}

\* Modification times, among them two that straddle the year 10000.
T_2023_09_10 == <<2023, 9, 10, 8, 5, 7>>
T_2023_10_09 == <<2023, 10, 9, 8, 5, 7>>
T_9999_12_31 == <<9999, 12, 31, 23, 59, 59>>
T_10000_01_01 == <<10000, 1, 1, 0, 0, 0>>

Times == {None, Some(T_2023_09_10), Some(T_2023_10_09),
          Some(T_9999_12_31), Some(T_10000_01_01)}


\* Parent assignments of n entries: each parent is the root or a lower id.
Shapes(n) == {p \in [1..n -> 0..n] : \A i \in 1..n : p[i] < i}

Siblings(p, i, j) == i # j /\ p[i] = p[j]

\* The ways one entry of a tree can fail: none does; directory `at` cannot
\* be listed; the metadata of entry `at` cannot be read.
NoFault == {[how |-> "none", at |-> 0]}
OneFault(maxN) ==
    NoFault \cup [how : {"read_dir", "metadata"}, at : 1..maxN]

\* What infer::get_from_path makes of a file's content: nothing it knows
\* ("unknown"), or one of its MIME types.
NoType == {"unknown"}
MimeTypes == {"unknown", "image/png", "application/zip"}

\* fs is a tree of at most maxN entries drawn from the given domains:
\* parents are directories and siblings have distinct names.  At most one
\* entry fails: a directory that cannot be listed, or an entry without
\* children whose metadata cannot be read (it is then neither is_dir nor
\* is_file, so its kind is immaterial and fixed).
InitTree(maxN, NameOf, LenSet, TimeSet, ROSet, FaultSet, MimeSet) ==
    \E fault \in FaultSet :
    \E n \in 0..maxN :
    \E p \in Shapes(n) :
    \E k \in [1..n -> {"file", "dir"}] :
        /\ \A i \in 1..n : p[i] # 0 => k[p[i]] = "dir"
        /\ fault.at <= n
        /\ fault.how = "read_dir" => k[fault.at] = "dir"
        /\ fault.how = "metadata" => k[fault.at] = "file"
        /\ \E nm \in [1..n -> UNION {NameOf[i] : i \in 1..n}] :
            /\ \A i \in 1..n : nm[i] \in NameOf[i]
            /\ \A i, j \in 1..n : Siblings(p, i, j) => nm[i] # nm[j]
            /\ \E a \in [1..n -> [len : LenSet, mtime : TimeSet, readonly : ROSet,
                                   mime : MimeSet]] :
                fs = [i \in 1..n |->
                        [parent |-> p[i], name |-> nm[i], kind |-> k[i],
                         len |-> a[i].len, mtime |-> a[i].mtime,
                         ctime |-> Some(T_2023_09_10),
                         readonly |-> a[i].readonly,
                         meta_ok |-> ~(fault.how = "metadata" /\ fault.at = i),
                         listable |-> ~(fault.how = "read_dir" /\ fault.at = i),
                         mime |-> a[i].mime]]

\* The names entry i may bear: any of Names, or the one name of its id.
AnyName(maxN) == [i \in 1..maxN |-> Names]
OwnName(maxN) == [i \in 1..maxN |-> {IdName(i)}]

InitResults ==
    /\ op = "none"
    /\ files = <<>>
    /\ duplicates = <<>>
    /\ arg = <<>>
    /\ out = <<>>
    /\ analysis = <<>>
    /\ exit = None
    /\ walk = <<>>

\* The most records a record set handed to the aggregator holds.
MaxRecords == 2

\* Record sizes at and around the bucket boundaries: 0, 1, 1023, 1024,
\* 1 Mi, 100 Mi - 1, 100 Mi, 1 Gi, 2^63 and u64::MAX.
SizeSamples ==
    {ToU64(0), ToU64(1), ToU64(1023), ToU64(1024), ToU64(1024 * 1024),
     ToU64(100 * 1024 * 1024 - 1), ToU64(100 * 1024 * 1024), ToU64(1024 * 1024 * 1024),
     [j \in 1..7 |-> IF j = 7 THEN 8 ELSE 0], u64_MAX}

\* The `modified` texts of records: absent, two times in 2023, the first
\* moment of the year 10000, and a text that is no time at all.
ModifiedTexts ==
    {None, Some(FormatTime(T_2023_09_10)), Some(FormatTime(T_2023_10_09)),
     Some(FormatTime(T_10000_01_01)), Some(<<63>>)}

\* Evaluation times: one second before 2023-09-10 08:05:07, that moment, and
\* the last second of each age bucket and the first of the next after it.
Nows ==
    {<<2023, 9, 10, 8, 5, 6>>, <<2023, 9, 10, 8, 5, 7>>,
     <<2023, 9, 11, 8, 5, 6>>, <<2023, 9, 11, 8, 5, 7>>,
     <<2023, 9, 17, 8, 5, 6>>, <<2023, 9, 17, 8, 5, 7>>,
     <<2023, 10, 10, 8, 5, 6>>, <<2023, 10, 10, 8, 5, 7>>,
     <<2024, 9, 9, 8, 5, 6>>, <<2024, 9, 9, 8, 5, 7>>}

\* Record sets of up to maxN records whose fields come from the given sets.
RecordSets(maxN, Sizes, Kinds, Texts, Perms) ==
    UNION {[1..n -> [size : Sizes, is_directory : Kinds, modified : Texts,
                     permissions : Perms]] : n \in 0..maxN}

\* A drawn record as a FileInfo: its name is that of its position.
GivenRecord(k, r) ==
    [name |-> IdName(k), path |-> RootPath \o <<47>> \o IdName(k),
     size |-> r.size, size_human |-> auto_format_size(r.size),
     file_type |-> IF r.is_directory THEN "directory" ELSE "unknown",
     created |-> None, modified |-> r.modified,
     permissions |-> r.permissions, is_directory |-> r.is_directory]

-----------------------------------------------------------------------------
(* Operations                                                              *)

\* collect.rs collect_files on the invocation's inputs.
CollectFiles ==
    /\ op' = "collect_files"
    /\ files' = collect_files(fs, root, search, excl, sort_by)
    /\ UNCHANGED <<fs, root, search, excl, sort_by, duplicates, arg, out, analysis, exit, walk>>

\* collect.rs collect_files_recursive on the invocation's inputs.
CollectFilesRecursive ==
    /\ op' = "collect_files_recursive"
    /\ files' = collect_files_recursive(fs, root, search, excl, sort_by)
    /\ UNCHANGED <<fs, root, search, excl, sort_by, duplicates, arg, out, analysis, exit, walk>>

\* main.rs collect_files on the invocation's inputs.
MainCollectFiles ==
    /\ op' = "main_collect_files"
    /\ files' = main_collect_files(fs, root, search, excl, sort_by)
    /\ UNCHANGED <<fs, root, search, excl, sort_by, duplicates, arg, out, analysis, exit, walk>>

\* main.rs collect_files_recursive on the invocation's inputs.
MainCollectFilesRecursive ==
    /\ op' = "main_collect_files_recursive"
    /\ files' = main_collect_files_recursive(fs, root, search, excl, sort_by)
    /\ UNCHANGED <<fs, root, search, excl, sort_by, duplicates, arg, out, analysis, exit, walk>>

\* find_duplicates: the scan, then the loop over hash_map.iter() that pushes
\* every group of two or more paths, in the map's (arbitrary) order.
FindDuplicates ==
    LET pushed == scan_for_duplicates(fs, root, 0, 1)
    IN  /\ op' = "find_duplicates"
        /\ \E q \in Orders(DuplicateKeys(pushed)) :
               duplicates' = [k \in DOMAIN q |->
                                 [size |-> q[k], paths |-> PathsOfSize(pushed, q[k])]]
        /\ UNCHANGED <<fs, root, search, excl, sort_by, files, arg, out, analysis, exit, walk>>

\* The records the aggregator is handed: those of the last collect, their
\* sizes as u64, or the record set given outright.
records_of(fls, o) ==
    IF o \in {"collect_files", "collect_files_recursive",
              "main_collect_files", "main_collect_files_recursive"}
    THEN [k \in DOMAIN fls |-> [fls[k] EXCEPT !.size = ToU64(@)]]
    ELSE fls

\* show_detailed_analysis on the current records, at the evaluation time
\* and under the build drawn.  The sum of the sizes comes first: where it
\* overflows, a build with overflow checks panics there and one without
\* them goes on.
ShowDetailedAnalysis ==
    /\ "now" \in DOMAIN arg
    /\ LET recs == records_of(files, op)
       IN  IF total_size_from(recs, 1).overflow /\ arg.overflow_checks
           THEN /\ analysis' = [panicked |-> TRUE, now |-> arg.now]
                /\ exit' = Some(101)
           ELSE /\ analysis' = show_detailed_analysis(recs, arg.now, arg.lenient)
                /\ exit' = exit
    /\ UNCHANGED <<fs, root, search, excl, sort_by, op, files, duplicates, arg, out, walk>>

Collect ==
    \/ CollectFiles
    \/ CollectFilesRecursive
    \/ MainCollectFiles
    \/ MainCollectFilesRecursive

-----------------------------------------------------------------------------
(* Specifications                                                          *)

\* The walkers under every pattern pair, on trees whose entries may have
\* unreadable metadata and whose directories may refuse to be listed.
Init ==
    /\ InitTree(MaxEntries, AnyName(MaxEntries), {1}, {Some(T_2023_09_10)}, {FALSE}, OneFault(MaxEntries), NoType)
    /\ root = [readonly |-> FALSE, meta_ok |-> TRUE, listable |-> TRUE]
    /\ search \in SearchPatterns
    /\ excl \in ExclPatterns
    /\ sort_by = None
    /\ InitResults

Next == Collect

Spec == Init /\ [][Next]_vars

\* The walkers under every sort criterion and no pattern, on readable trees
\* whose names and sizes vary, or whose modification times vary.
InitSort ==
    /\ \/ InitTree(MaxEntries, AnyName(MaxEntries), 0..MaxLen, {Some(T_2023_09_10)}, {FALSE}, NoFault, NoType)
       \/ InitTree(MaxEntries, OwnName(MaxEntries), {1}, Times, {FALSE}, NoFault, NoType)
    /\ root = [readonly |-> FALSE, meta_ok |-> TRUE, listable |-> TRUE]
    /\ search = None
    /\ excl = None
    /\ sort_by \in SortOptions
    /\ InitResults

SpecSort == InitSort /\ [][Next]_vars

\* find_duplicates on trees whose file lengths vary, where a directory may
\* refuse to be listed or a file's metadata may be unreadable.
InitDup ==
    /\ InitTree(MaxDupEntries, OwnName(MaxDupEntries), 0..MaxLen, {Some(T_2023_09_10)}, {FALSE},
                OneFault(MaxDupEntries), NoType)
    /\ root = [readonly |-> FALSE, meta_ok |-> TRUE, listable |-> TRUE]
    /\ search = None
    /\ excl = None
    /\ sort_by = None
    /\ InitResults

NextDup == FindDuplicates

SpecDup == InitDup /\ [][NextDup]_vars

\* The byte counts handed to the size renderer: every u64 whose base-1024
\* digits are 0, 1, 512 or 1023 (and whose top digit, worth 2^60, is 0, 1 or
\* 15), among them 0, 1023, 1024, 1024^2, 1024^4 - 1, 1024^4 and u64::MAX.
ByteCounts ==
    {d \in [1..7 -> {0, 1, 15, 512, 1023}] :
        /\ d[7] \in {0, 1, 15}
        /\ \A j \in 1..6 : d[j] # 15}

\* The st_mode values handed to the permission renderer: a regular file, a
\* directory or a symbolic link, with any of the twelve permission bits.
Modes == {type + perm : type \in {32768, 16384, 40960}, perm \in 0..4095}

\* SizeUnit::auto_format_size on the byte count drawn.
AutoFormatSize ==
    /\ "bytes" \in DOMAIN arg
    /\ op' = "auto_format_size"
    /\ out' = auto_format_size(arg.bytes)
    /\ UNCHANGED <<fs, root, search, excl, sort_by, files, duplicates, arg, analysis, exit, walk>>

\* format_unix_permissions on the metadata drawn, detailed or compact.
FormatUnixPermissions ==
    /\ "mode" \in DOMAIN arg
    /\ op' = "format_unix_permissions"
    /\ out' = format_unix_permissions(arg.mode, arg.detailed)
    /\ UNCHANGED <<fs, root, search, excl, sort_by, files, duplicates, arg, analysis, exit, walk>>

\* The two renderers on their own, each on every input of its domain.
InitRender ==
    /\ fs = <<>>
    /\ root = [readonly |-> FALSE, meta_ok |-> TRUE, listable |-> TRUE]
    /\ search = None
    /\ excl = None
    /\ sort_by = None
    /\ op = "none"
    /\ files = <<>>
    /\ duplicates = <<>>
    /\ out = <<>>
    /\ analysis = <<>>
    /\ exit = None
    /\ walk = <<>>
    /\ \/ \E b \in ByteCounts : arg = [bytes |-> b]
       \/ \E mode \in Modes, detailed \in BOOLEAN :
              arg = [mode |-> mode, detailed |-> detailed]

NextRender == AutoFormatSize \/ FormatUnixPermissions

SpecRender == InitRender /\ [][NextRender]_vars

\* The aggregator on record sets given outright: sizes, kinds and the build
\* vary, or modification texts, the evaluation time and the parser vary.
InitAnalysis ==
    /\ fs = <<>>
    /\ root = [readonly |-> FALSE, meta_ok |-> TRUE, listable |-> TRUE]
    /\ search = None
    /\ excl = None
    /\ sort_by = None
    /\ op = "none"
    /\ duplicates = <<>>
    /\ out = <<>>
    /\ analysis = <<>>
    /\ exit = None
    /\ walk = <<>>
    /\ \/ /\ \E given \in RecordSets(MaxRecords, SizeSamples, BOOLEAN,
                                     {Some(FormatTime(T_2023_09_10))},
                                     {<<114, 119, 45>>}) :
                files = [k \in DOMAIN given |-> GivenRecord(k, given[k])]
          /\ arg \in [now : {<<2023, 9, 11, 8, 5, 7>>}, lenient : {TRUE},
                      overflow_checks : BOOLEAN]
       \/ /\ \E given \in RecordSets(MaxRecords, {ToU64(1)}, {FALSE}, ModifiedTexts,
                                     {<<114, 119, 45>>}) :
                files = [k \in DOMAIN given |-> GivenRecord(k, given[k])]
          /\ arg \in [now : Nows, lenient : BOOLEAN, overflow_checks : {FALSE}]

NextAnalysis == ShowDetailedAnalysis

SpecAnalysis == InitAnalysis /\ [][NextAnalysis]_vars

\* A collect and then the aggregator on what it returned, on readable trees
\* whose entries and root are read-only or writable.
InitSummary ==
    /\ InitTree(MaxEntries, OwnName(MaxEntries), {1}, {Some(T_2023_09_10)}, BOOLEAN, NoFault, NoType)
    /\ root \in [readonly : BOOLEAN, meta_ok : BOOLEAN, listable : {TRUE}]
    /\ search = None
    /\ excl = None
    /\ sort_by = None
    /\ op = "none"
    /\ files = <<>>
    /\ duplicates = <<>>
    /\ out = <<>>
    /\ analysis = <<>>
    /\ exit = None
    /\ walk = <<>>
    /\ arg = [now |-> <<2023, 9, 11, 8, 5, 7>>, lenient |-> TRUE, overflow_checks |-> FALSE]

NextSummary == Collect \/ ShowDetailedAnalysis

SpecSummary == InitSummary /\ [][NextSummary]_vars

\* Patterns that tell the entries of a tree apart by their own names.
SizeSearchPatterns == {None, Some(<<98>>)}
SizeExclPatterns == {None, Some(<<94, 99>>)}

\* The walkers on trees whose lengths vary, directories' own lengths
\* included, under a search and an exclusion pattern, where one directory
\* may refuse to be listed or one file's metadata may be unreadable.
InitSize ==
    /\ InitTree(MaxEntries, OwnName(MaxEntries), 1..2, {Some(T_2023_09_10)}, {FALSE},
                OneFault(MaxEntries), NoType)
    /\ root = [readonly |-> FALSE, meta_ok |-> TRUE, listable |-> TRUE]
    /\ search \in SizeSearchPatterns
    /\ excl \in SizeExclPatterns
    /\ sort_by = None
    /\ InitResults

SpecSize == InitSize /\ [][Next]_vars

\* The walkers on readable trees whose entries are read-only or writable,
\* beneath a root that is read-only or writable, or whose metadata cannot
\* be read.
InitPerm ==
    /\ InitTree(MaxEntries, OwnName(MaxEntries), {1}, {Some(T_2023_09_10)}, BOOLEAN, NoFault, NoType)
    /\ root \in [readonly : BOOLEAN, meta_ok : BOOLEAN, listable : {TRUE}]
    /\ search = None
    /\ excl = None
    /\ sort_by = None
    /\ InitResults

SpecPerm == InitPerm /\ [][Next]_vars


\* The walkers on trees whose files are of varying inferred types, where a
\* directory may refuse to be listed or an entry's metadata be unreadable.
InitTypes ==
    /\ InitTree(MaxEntries, OwnName(MaxEntries), {1}, {Some(T_2023_09_10)}, {FALSE},
                OneFault(MaxEntries), MimeTypes)
    /\ root = [readonly |-> FALSE, meta_ok |-> TRUE, listable |-> TRUE]
    /\ search \in SizeSearchPatterns
    /\ excl = None
    /\ sort_by = None
    /\ InitResults

SpecTypes == InitTypes /\ [][Next]_vars

\* The walkers and the duplicate scan on trees in which one directory may
\* refuse to be listed or one entry's metadata be unreadable.
InitFailOpen ==
    /\ InitTree(MaxEntries, OwnName(MaxEntries), 0..MaxLen, {Some(T_2023_09_10)}, {FALSE},
                OneFault(MaxEntries), NoType)
    /\ root = [readonly |-> FALSE, meta_ok |-> TRUE, listable |-> TRUE]
    /\ search \in SizeSearchPatterns
    /\ excl \in SizeExclPatterns
    /\ sort_by = None
    /\ InitResults

NextFailOpen == Collect \/ FindDuplicates

SpecFailOpen == InitFailOpen /\ [][NextFailOpen]_vars

\* The most entries of a tree whose enumeration order is varied.
MaxEnumEntries == 3

\* File names as the filesystem holds them: "a", and two single bytes that
\* are not UTF-8.
EnumNames == {<<97>>, <<254>>, <<255>>}

\* The walkers under every sort criterion on readable trees whose entries
\* bear any of these names, siblings bearing different ones.  The ids of a
\* tree are the order in which read_dir yields its entries.
InitEnum ==
    /\ InitTree(MaxEnumEntries, [i \in 1..MaxEnumEntries |-> EnumNames], 1..2,
                {Some(T_2023_09_10)}, {FALSE}, NoFault, NoType)
    /\ root = [readonly |-> FALSE, meta_ok |-> TRUE, listable |-> TRUE]
    /\ search = None
    /\ excl = None
    /\ sort_by \in SortOptions
    /\ InitResults

SpecEnum == InitEnum /\ [][Next]_vars

-----------------------------------------------------------------------------
(* The command line: one run of main (main.rs)                              *)

\* print_tree: the lines written, depth first in enumeration order; a
\* directory that cannot be listed yields one line on stderr and nothing
\* beneath it.
RECURSIVE print_tree(_, _, _, _, _)
print_tree(f, r, d, i, depth) ==
    IF ~ReadDirOk(f, r, d)
    THEN <<[stderr |-> TRUE, depth |-> depth, at |-> d, is_last |-> FALSE]>>
    ELSE IF i > Len(f) THEN <<>>
    ELSE
        LET here ==
                IF f[i].parent # d THEN <<>>
                ELSE <<[stderr |-> FALSE, depth |-> depth, at |-> i,
                        is_last |-> ~\E j \in (i + 1)..Len(f) : f[j].parent = d]>>
                     \o (IF IsDir(f, i) THEN print_tree(f, r, i, 1, depth + 1) ELSE <<>>)
        IN  here \o print_tree(f, r, d, i + 1, depth)

\* Path::exists, Path::is_file and Path::is_dir of the root path.
path_exists(a) == a.root_kind # "missing"
path_is_file(a) == a.root_kind = "file"
path_is_dir(a) == a.root_kind = "dir"

\* The test of the direct single-file analysis: a regular file and none of
\* the options that select another mode or shape the listing.
direct_file_analysis(a, sp, ex, sb) ==
    /\ path_is_file(a)
    /\ ~a.tree /\ ~a.properties /\ ~a.duplicates /\ ~a.recursive
    /\ sp = None /\ ex = None /\ sb = None
    /\ a.export = "none"

\* The mode main ends in, from the root path and the options.
main_mode(a, sp, ex, sb) ==
    IF ~path_exists(a) THEN "not_exist"
    ELSE IF direct_file_analysis(a, sp, ex, sb) THEN "file_analysis"
    ELSE IF a.tree THEN (IF path_is_dir(a) THEN "print_tree" ELSE "tree_not_dir")
    ELSE IF a.properties
    THEN (IF path_is_file(a) THEN "properties_file"
          ELSE IF path_is_dir(a) THEN "properties_dir"
          ELSE "properties_not_exist")
    ELSE IF a.duplicates THEN "find_duplicates"
    ELSE IF a.recursive THEN "main_collect_files_recursive"
    ELSE "main_collect_files"

\* A variant of show_disk_info that always lists the mount point.
show_disk_info_mode_listing(a) == "disk_collect_files"

\* What show_disk_info does with the mount point of the disk it found.
show_disk_info_mode(a) ==
    IF a.duplicates THEN "disk_find_duplicates"
    ELSE IF a.tree THEN "disk_print_tree"
    ELSE "disk_collect_files"

\* The branch of --whole: it analyses the positional path.
whole_mode(a) ==
    IF ~a.path_given THEN "whole_no_path"
    ELSE IF ~path_exists(a) THEN "whole_not_exist"
    ELSE IF path_is_file(a) THEN "whole_file"
    ELSE IF path_is_dir(a) THEN "whole_dir"
    ELSE "whole_neither"

\* The mode of one run of main, from its first test on: the tests are made
\* in this order and each branch returns or exits.
program_mode(a, sp, ex, sb) ==
    IF a.version THEN "version"
    ELSE IF a.help THEN "help"
    ELSE IF ~a.size_ok THEN "size_error"
    ELSE IF a.disk = "list" THEN "disk_list"
    ELSE IF a.disk = "found" THEN show_disk_info_mode(a)
    ELSE IF a.disk = "missing" THEN "disk_not_found"
    ELSE IF a.whole THEN whole_mode(a)
    ELSE IF a.file_given
    THEN (IF ~path_exists(a) THEN "file_not_found"
          ELSE IF ~path_is_file(a) THEN "file_not_file"
          ELSE "file")
    ELSE IF a.dir_given
    THEN (IF ~path_exists(a) THEN "directory_not_found"
          ELSE IF ~path_is_dir(a) THEN "directory_not_dir"
          ELSE "directory")
    ELSE main_mode(a, sp, ex, sb)

\* The modes that end in eprintln! and process::exit(1).
error_modes == {"not_exist", "tree_not_dir", "properties_not_exist", "size_error",
                "disk_not_found", "whole_no_path", "whole_not_exist", "whole_neither",
                "file_not_found", "file_not_file", "directory_not_found",
                "directory_not_dir"}

\* What a mode writes first, given the records and groups it found.
main_message(mode, sp, fls, dups) ==
    CASE mode = "not_exist" -> "Error: Path does not exist"
      [] mode = "tree_not_dir" -> "Error: --tree can only be used with directories"
      [] mode = "properties_not_exist" -> "Error: Path does not exist"
      [] mode \in {"file_analysis", "properties_file"} -> "File Analysis:"
      [] mode = "print_tree" -> "path"
      [] mode = "properties_dir" ->
            IF fls = <<>> THEN "No files found in directory." ELSE "Directory:"
      [] mode = "find_duplicates" ->
            IF dups = <<>> THEN "No duplicate files found." ELSE "Duplicate files found:"
      [] mode = "version" -> "filebyte version"
      [] mode = "help" -> "filebyte 0.3.7"
      [] mode = "size_error" -> "Error: invalid size unit"
      [] mode = "disk_list" -> "Available disks:"
      [] mode \in {"disk_find_duplicates", "disk_print_tree", "disk_collect_files"} ->
            "Disk:"
      [] mode = "disk_not_found" -> "Error: Disk not found"
      [] mode = "whole_no_path" -> "Error: --whole requires a path argument"
      [] mode = "whole_not_exist" -> "Error: Path does not exist"
      [] mode = "whole_neither" -> "Error: Path is neither a file nor a directory"
      [] mode \in {"whole_file", "file"} -> "File Analysis:"
      [] mode \in {"whole_dir", "directory"} -> "Directory Analysis:"
      [] mode = "file_not_found" -> "Error: File not found"
      [] mode = "file_not_file" -> "Error: not a file"
      [] mode = "directory_not_found" -> "Error: Directory not found"
      [] mode = "directory_not_dir" -> "Error: not a directory"
      [] OTHER ->
            IF fls = <<>>
            THEN (IF IsSome(sp) THEN "No files found matching pattern:" ELSE "No files found.")
            ELSE (IF IsSome(sp) THEN "Search Results" ELSE "listing")

\* A variant of the export step that writes JSON under every other name.
display_files_export_any(name, write_ok) ==
    IF name = "none" THEN "none"
    ELSE IF name = ".csv" THEN (IF write_ok THEN "csv" ELSE "csv_panic")
    ELSE (IF write_ok THEN "json" ELSE "json_failed")

\* The export step of display_files for export file name `name` (its
\* suffix, or "none" where --export is absent): export_to_json reports a
\* failed write on stderr, export_to_csv unwraps it.
display_files_export(name, write_ok) ==
    IF name = ".json" THEN (IF write_ok THEN "json" ELSE "json_failed")
    ELSE IF name = ".csv" THEN (IF write_ok THEN "csv" ELSE "csv_panic")
    ELSE "none"

\* The number of records of s that are not directories and, where t is not
\* "", are of type t.
RECURSIVE type_count(_, _)
type_count(s, t) ==
    IF s = <<>> THEN 0
    ELSE (IF ~Head(s).is_directory /\ (t = "" \/ Head(s).file_type = t) THEN 1 ELSE 0)
         + type_count(Tail(s), t)

\* The keys of type_counts that show_file_type_stats keeps.
listed_types(s) ==
    {s[k].file_type : k \in {j \in DOMAIN s : ~s[j].is_directory}} \ {"unknown"}

\* show_file_type_stats once the hash map has yielded the kept types in the
\* order q: the stable sort by decreasing count, then one line per type and
\* the total.
RECURSIVE sort_types(_, _)
sort_types(q, s) ==
    IF q = <<>> THEN <<>>
    ELSE LET rest == sort_types(SubSeq(q, 1, Len(q) - 1), s)
             x == q[Len(q)]
             after == {k \in DOMAIN rest : type_count(s, rest[k]) < type_count(s, x)}
             at == IF after = {} THEN Len(rest) + 1
                   ELSE CHOOSE k \in after : \A m \in after : k <= m
         IN  SubSeq(rest, 1, at - 1) \o <<x>> \o SubSeq(rest, at, Len(rest))

\* `_total_size += file.size` over the records that are not directories
\* overflows u64 (the sizes of s are u64).
type_size_overflow(s) ==
    total_size_from(SelectSeq(s, LAMBDA x : ~x.is_directory), 1).overflow

\* show_file_type_stats on the records s (sizes as u64) in a build with or
\* without overflow checks: the counting loop, which panics in a checked
\* build where the sizes sum past u64::MAX, then the report.
show_file_type_stats(s, q, checks) ==
    LET total_files == type_count(s, "")
        sorted_types == sort_types(q, s)
    IN  IF checks /\ type_size_overflow(s) THEN [panicked |-> TRUE]
        ELSE IF total_files = 0 THEN <<>>
        ELSE [lines |-> [k \in DOMAIN sorted_types |->
                            [file_type |-> sorted_types[k],
                             count |-> type_count(s, sorted_types[k]),
                             percentage |-> percentage(type_count(s, sorted_types[k]),
                                                       total_files)]],
              total_files |-> total_files]

\* main from its first test to its end: one run of the program.
Main ==
    /\ op = "none"
    /\ "root_kind" \in DOMAIN arg
    /\ LET mode == program_mode(arg, search, excl, sort_by)
           fls == CASE mode \in {"properties_dir", "main_collect_files_recursive"} ->
                          main_collect_files_recursive(fs, root, search, excl, sort_by)
                    [] mode \in {"main_collect_files", "disk_collect_files"} ->
                          main_collect_files(fs, root, search, excl, sort_by)
                    [] OTHER -> <<>>
           pushed == IF mode \in {"find_duplicates", "disk_find_duplicates"}
                     THEN scan_for_duplicates(fs, root, 0, 1) ELSE <<>>
           recs == records_of(fls, "main_collect_files_recursive")
           analysed == mode = "properties_dir" /\ fls # <<>>
           displayed == \/ mode = "disk_collect_files" /\ fls # <<>>
                        \/ /\ mode \in {"main_collect_files", "main_collect_files_recursive"}
                           /\ fls # <<>>
                           /\ search = None
           exported == IF displayed /\ mode # "disk_collect_files"
                       THEN display_files_export(arg.export, arg.write_ok) ELSE "none"
           counted == \/ mode = "disk_collect_files"
                      \/ analysed
                      \/ displayed /\ mode = "main_collect_files_recursive"
           panics == \/ analysed /\ total_size_from(recs, 1).overflow /\ arg.overflow_checks
                     \/ exported = "csv_panic"
                     \/ counted /\ type_size_overflow(recs) /\ arg.overflow_checks
       IN  /\ op' = mode
           /\ files' = fls
           /\ \E q \in Orders(DuplicateKeys(pushed)) :
              \E t \in Orders(listed_types(fls)) :
                  /\ duplicates' = [k \in DOMAIN q |->
                                       [size |-> q[k], paths |-> PathsOfSize(pushed, q[k])]]
                  /\ out' = [message |-> main_message(mode, search, fls, duplicates'),
                             stderr |-> mode \in error_modes,
                             tree |-> IF mode \in {"print_tree", "disk_print_tree"}
                                      THEN print_tree(fs, root, 0, 1, 0) ELSE <<>>,
                             export |-> exported,
                             stats |-> IF counted /\ ~(exported = "csv_panic")
                                       THEN show_file_type_stats(recs, t, arg.overflow_checks)
                                       ELSE <<>>]
           /\ analysis' = IF analysed /\ panics THEN [panicked |-> TRUE, now |-> arg.now]
                          ELSE IF analysed
                          THEN show_detailed_analysis(recs, arg.now, arg.lenient)
                          ELSE analysis
           /\ exit' = IF mode \in error_modes THEN Some(1)
                      ELSE IF panics THEN Some(101)
                      ELSE exit
    /\ UNCHANGED <<fs, root, search, excl, sort_by, arg, walk>>

\* The most entries beneath a root directory handed to main.
MaxMainEntries == 2

\* What the root path is: nothing, a regular file, a directory, or
\* something else that exists (a fifo, a socket, a device).
RootKinds == {"missing", "file", "dir", "other"}

\* Search patterns and sort criteria given on the command line.
MainSearchPatterns == {None, Some(<<97>>)}
MainSortOptions == {None, Some("Name")}

\* The suffix of the --export file name, "none" where the option is absent.
ExportNames == {"none", ".json", ".csv", ".txt"}

\* The --disk argument: absent, "list", the name of a disk that is found
\* (its mount point is the root directory), or of none.
DiskArgs == {"none", "list", "found", "missing"}

\* One run of main on every kind of root path under every combination of
\* the mode options; only a directory has entries and can be listed.
InitMain ==
    /\ arg \in [root_kind : RootKinds, tree : BOOLEAN, properties : BOOLEAN,
                duplicates : BOOLEAN, recursive : BOOLEAN, export : {"none", ".json"},
                now : {<<2023, 9, 11, 8, 5, 7>>}, lenient : {TRUE},
                overflow_checks : {TRUE}, version : {FALSE}, help : {FALSE},
                size_ok : {TRUE}, disk : {"none"}, whole : {FALSE},
                file_given : {FALSE}, dir_given : {FALSE}, path_given : {TRUE},
                write_ok : {TRUE}]
    /\ IF arg.root_kind = "dir"
       THEN /\ InitTree(MaxMainEntries, OwnName(MaxMainEntries), {1},
                        {Some(T_2023_09_10)}, {FALSE}, NoFault, NoType)
            /\ root = [readonly |-> FALSE, meta_ok |-> TRUE, listable |-> TRUE]
       ELSE /\ fs = <<>>
            /\ root = [readonly |-> FALSE, meta_ok |-> arg.root_kind # "missing",
                       listable |-> FALSE]
    /\ search \in MainSearchPatterns
    /\ excl = None
    /\ sort_by \in MainSortOptions
    /\ op = "none"
    /\ files = <<>>
    /\ duplicates = <<>>
    /\ out = <<>>
    /\ analysis = <<>>
    /\ exit = None
    /\ walk = <<>>

NextMain == Main

SpecMain == InitMain /\ [][NextMain]_vars

\* Exclusion patterns given on the command line.
CliExclPatterns == {None, Some(<<98>>)}

\* The most entries beneath the root directory of a run with every option.
MaxCliEntries == 2

\* One run of main under every combination of its options.  root_kind is
\* the kind of the path the run consults: the mount point of the disk
\* found, the path named by the option that selects the mode, or "." where
\* no path is given.  A write can fail only where an export file is named.
InitCli ==
    /\ arg \in [root_kind : RootKinds, tree : BOOLEAN, properties : BOOLEAN,
                duplicates : BOOLEAN, recursive : BOOLEAN, export : ExportNames,
                now : {<<2023, 9, 11, 8, 5, 7>>}, lenient : {TRUE},
                overflow_checks : {TRUE}, version : BOOLEAN, help : BOOLEAN,
                size_ok : BOOLEAN, disk : DiskArgs, whole : BOOLEAN,
                file_given : BOOLEAN, dir_given : BOOLEAN, path_given : BOOLEAN,
                write_ok : BOOLEAN]
    /\ arg.disk = "found" => arg.root_kind = "dir"
    /\ ~arg.path_given /\ ~arg.file_given /\ ~arg.dir_given => arg.root_kind = "dir"
    /\ arg.export \in {"none", ".txt"} => arg.write_ok
    /\ IF arg.root_kind = "dir"
       THEN /\ InitTree(MaxCliEntries, OwnName(MaxCliEntries), {1},
                        {Some(T_2023_09_10)}, {FALSE}, NoFault, NoType)
            /\ root = [readonly |-> FALSE, meta_ok |-> TRUE, listable |-> TRUE]
       ELSE /\ fs = <<>>
            /\ root = [readonly |-> FALSE, meta_ok |-> arg.root_kind # "missing",
                       listable |-> FALSE]
    /\ search \in MainSearchPatterns
    /\ excl \in CliExclPatterns
    /\ sort_by = None
    /\ op = "none"
    /\ files = <<>>
    /\ duplicates = <<>>
    /\ out = <<>>
    /\ analysis = <<>>
    /\ exit = None
    /\ walk = <<>>

SpecCli == InitCli /\ [][NextMain]_vars

\* show_file_type_stats on the current records under the build drawn; the
\* hash map yields the kept types in any order.
ShowFileTypeStats ==
    /\ "overflow_checks" \in DOMAIN arg
    /\ op # "show_file_type_stats"
    /\ \E q \in Orders(listed_types(files)) :
          out' = show_file_type_stats(records_of(files, op), q, arg.overflow_checks)
    /\ op' = "show_file_type_stats"
    /\ exit' = IF arg.overflow_checks /\ type_size_overflow(records_of(files, op))
               THEN Some(101) ELSE exit
    /\ UNCHANGED <<fs, root, search, excl, sort_by, files, duplicates, arg, analysis,
                   walk>>

\* Sizes of records given outright: 1, 2^63 and u64::MAX.
StatsSizes == {ToU64(1), [j \in 1..7 |-> IF j = 7 THEN 8 ELSE 0], u64_MAX}

\* The statistics in either build: of what a collect returns on trees whose
\* files are of varying inferred types, or of record sets given outright
\* whose sizes and types vary.
InitStats ==
    /\ root = [readonly |-> FALSE, meta_ok |-> TRUE, listable |-> TRUE]
    /\ search = None
    /\ excl = None
    /\ sort_by = None
    /\ op = "none"
    /\ duplicates = <<>>
    /\ out = <<>>
    /\ analysis = <<>>
    /\ exit = None
    /\ walk = <<>>
    /\ arg \in [overflow_checks : BOOLEAN]
    /\ \/ /\ InitTree(MaxEntries, OwnName(MaxEntries), {1}, {Some(T_2023_09_10)},
                       {FALSE}, NoFault, MimeTypes)
          /\ files = <<>>
       \/ /\ fs = <<>>
          /\ \E given \in RecordSets(MaxRecords, StatsSizes, BOOLEAN, {None},
                                     {<<114, 119, 45>>}) :
             \E ty \in [DOMAIN given -> MimeTypes] :
                files = [k \in DOMAIN given |->
                            [GivenRecord(k, given[k]) EXCEPT
                                !.file_type = IF given[k].is_directory THEN @ ELSE ty[k]]]

NextStats == Collect \/ ShowFileTypeStats

SpecStats == InitStats /\ [][NextStats]_vars

-----------------------------------------------------------------------------
(* The recursive routines step by step: one frame per active call, one     *)
(* step per loop iteration.  An entry may be a symbolic link; is_dir,      *)
(* is_file and read_dir follow it to its target.                           *)

\* The routines that recurse over directories.
Routines == {"collect_all_recursive", "main_collect_all_recursive", "get_file_size",
             "scan_for_duplicates", "print_tree"}

\* What entry i stands for once links are followed: itself, or the target
\* of the link (0 is the root directory).
Target(f, i) == IF "target" \in DOMAIN f[i] THEN f[i].target ELSE i

\* Path::is_dir and Path::is_file of entry i's path: fs::metadata follows a
\* link.
FollowsToDir(f, r, i) ==
    /\ f[i].meta_ok
    /\ IF Target(f, i) = 0 THEN r.meta_ok ELSE IsDir(f, Target(f, i))
FollowsToFile(f, i) ==
    f[i].meta_ok /\ Target(f, i) # 0 /\ IsFile(f, Target(f, i))

\* The ids of the entries below id i - 1 that read_dir yields for
\* directory d, in enumeration order.
RECURSIVE Children(_, _, _)
Children(f, d, i) ==
    IF i > Len(f) THEN <<>>
    ELSE (IF f[i].parent = d THEN <<i>> ELSE <<>>) \o Children(f, d, i + 1)

\* A variant of the descent test that never descends below the first level.
walk_descends_first_level(rt, f, r, e, sp, rx) ==
    /\ f[e].parent = 0
    /\ FollowsToDir(f, r, e)

\* The routine's loop body calls itself on entry e.
walk_descends(rt, f, r, e, sp, rx) ==
    CASE rt = "collect_all_recursive" ->
            ~is_excluded(rx, file_name(f, e)) /\ f[e].meta_ok /\ FollowsToDir(f, r, e)
      [] rt = "main_collect_all_recursive" ->
            /\ ~is_excluded(rx, file_name(f, e))
            /\ should_collect(sp, file_name(f, e))
            /\ f[e].meta_ok
            /\ FollowsToDir(f, r, e)
      [] rt \in {"get_file_size", "scan_for_duplicates"} ->
            ~FollowsToFile(f, e) /\ FollowsToDir(f, r, e)
      [] rt = "print_tree" -> FollowsToDir(f, r, e)

\* The routine's loop body adds entry e to what it accumulates: a record, a
\* length to the total, a path under its size, a printed line.
walk_pushes(rt, f, e, sp, rx) ==
    CASE rt = "collect_all_recursive" ->
            ~is_excluded(rx, file_name(f, e)) /\ f[e].meta_ok /\ should_collect(sp, file_name(f, e))
      [] rt = "main_collect_all_recursive" ->
            ~is_excluded(rx, file_name(f, e)) /\ should_collect(sp, file_name(f, e)) /\ f[e].meta_ok
      [] rt \in {"get_file_size", "scan_for_duplicates"} -> FollowsToFile(f, e)
      [] rt = "print_tree" -> TRUE

\* The deepest the call stack may grow before the model stops following it.
MaxWalkEntries == 3
MaxDepth == MaxWalkEntries + 1

\* The routine is called on the root: it lists the root, or returns at once
\* where the root cannot be listed.
WalkStart ==
    /\ walk = <<>>
    /\ \E rt \in Routines :
          /\ walk' = [routine |-> rt,
                      stack |-> IF ReadDirOk(fs, root, 0)
                                THEN <<[dir |-> 0, path |-> <<>>, next |-> 1]>> ELSE <<>>,
                      visited |-> <<<<>>>>,
                      acc |-> <<>>,
                      done |-> ~ReadDirOk(fs, root, 0)]
          /\ op' = rt
    /\ UNCHANGED <<fs, root, search, excl, sort_by, files, duplicates, arg, out,
                   analysis, exit>>

\* One iteration of the innermost active loop: the entry is accumulated or
\* not, and where the routine calls itself on it the callee lists it and
\* becomes the innermost loop (or returns at once where it cannot list it).
WalkEntry ==
    /\ walk # <<>>
    /\ walk.stack # <<>>
    /\ LET top == walk.stack[Len(walk.stack)]
           kids == Children(fs, top.dir, 1)
       IN  /\ top.next <= Len(kids)
           /\ LET e == kids[top.next]
                  rx == excluding_regex(excl)
                  path == Append(top.path, e)
                  calls == walk_descends(walk.routine, fs, root, e, search, rx)
                  lists == calls /\ ReadDirOk(fs, root, Target(fs, e))
                  below == [walk.stack EXCEPT ![Len(walk.stack)].next = @ + 1]
              IN  /\ lists => Len(walk.stack) < MaxDepth
                  /\ walk' = [walk EXCEPT
                        !.acc = IF walk_pushes(walk.routine, fs, e, search, rx)
                                THEN Append(@, path) ELSE @,
                        !.visited = IF calls THEN Append(@, path) ELSE @,
                        !.stack = IF lists
                                  THEN Append(below, [dir |-> Target(fs, e), path |-> path,
                                                      next |-> 1])
                                  ELSE below]
    /\ UNCHANGED <<fs, root, search, excl, sort_by, op, files, duplicates, arg, out,
                   analysis, exit>>

\* The innermost loop has run out of entries: the call returns, and the
\* routine is done when that was the call on the root.
WalkReturn ==
    /\ walk # <<>>
    /\ walk.stack # <<>>
    /\ LET top == walk.stack[Len(walk.stack)]
       IN  top.next > Len(Children(fs, top.dir, 1))
    /\ walk' = [walk EXCEPT !.stack = SubSeq(@, 1, Len(@) - 1),
                            !.done = Len(walk.stack) = 1]
    /\ UNCHANGED <<fs, root, search, excl, sort_by, op, files, duplicates, arg, out,
                   analysis, exit>>

\* Trees of files, directories and links: a link points at the root or at a
\* directory or file of the tree; parents are directories; every entry can
\* be read.
InitWalk ==
    /\ \E n \in 0..MaxWalkEntries :
       \E p \in Shapes(n) :
       \E k \in [1..n -> {"file", "dir", "link"}] :
       \E t \in [1..n -> 0..n] :
          /\ \A i \in 1..n : p[i] # 0 => k[p[i]] = "dir"
          /\ \A i \in 1..n : IF k[i] = "link"
                             THEN t[i] # i /\ (t[i] # 0 => k[t[i]] # "link")
                             ELSE t[i] = i
          /\ fs = [i \in 1..n |->
                      [parent |-> p[i], name |-> IdName(i), kind |-> k[i],
                       len |-> 1, mtime |-> Some(T_2023_09_10),
                       ctime |-> Some(T_2023_09_10), readonly |-> FALSE,
                       meta_ok |-> TRUE, listable |-> TRUE, mime |-> "unknown",
                       target |-> t[i]]]
    /\ root = [readonly |-> FALSE, meta_ok |-> TRUE, listable |-> TRUE]
    /\ search = None
    /\ excl = None
    /\ sort_by = None
    /\ InitResults

NextWalk == WalkStart \/ WalkEntry \/ WalkReturn

\* The routine runs on one thread that nothing suspends: a step that can be
\* taken is taken.
SpecWalk == InitWalk /\ [][NextWalk]_vars /\ WF_vars(NextWalk)

-----------------------------------------------------------------------------
(* Vocabulary of the properties                                            *)

ShallowOps == {"collect_files", "main_collect_files"}
DeepOps == {"collect_files_recursive", "main_collect_files_recursive"}
CollectOps == ShallowOps \cup DeepOps

Range(s) == {s[k] : k \in DOMAIN s}

\* The directories between the root and entry i.
RECURSIVE Ancestors(_, _)
Ancestors(f, i) ==
    IF f[i].parent = 0 THEN {} ELSE {f[i].parent} \cup Ancestors(f, f[i].parent)

\* The result holds a record for entry i.
HasRecord(i) == \E k \in 1..Len(files) : files[k].path = EntryPath(fs, i)

\* The name matches the exclusion pattern as a regular expression.
NameExcluded(nm) ==
    /\ IsSome(excl)
    /\ RegexCompiles(Unwrap(excl))
    /\ RegexIsMatch(Unwrap(excl), nm)

\* The name matches the search pattern: as a regex when the pattern starts
\* with '^', ends with '$' or contains ".*", '[' or ']', else as a substring.
NameSearched(nm) ==
    LET p == Unwrap(search)
    IN  IF \/ p[1] = 94
           \/ p[Len(p)] = 36
           \/ \E k \in 1..(Len(p) - 1) : p[k] = 46 /\ p[k + 1] = 42
           \/ 91 \in Range(p)
           \/ 93 \in Range(p)
        THEN RegexCompiles(p) /\ RegexIsMatch(p, nm)
        ELSE \E k \in 0..(Len(nm) - Len(p)) :
                \A m \in 1..Len(p) : nm[k + m] = p[m]

NamePasses(nm) == ~NameExcluded(nm) /\ (search = None \/ NameSearched(nm))

\* The deep walk descended into directory a: its metadata was readable, it
\* could be listed, its name was not excluded and, in main.rs's walker, its
\* name passed the search pattern.
DescendedInto(a) ==
    /\ fs[a].meta_ok
    /\ fs[a].listable
    /\ ~NameExcluded(fs[a].name)
    /\ (op = "main_collect_files_recursive" /\ search # None
            => NameSearched(fs[a].name))

\* The walk enumerated entry i.
Enumerated(i) ==
    IF op \in ShallowOps THEN fs[i].parent = 0
    ELSE \A a \in Ancestors(fs, i) : DescendedInto(a)

-----------------------------------------------------------------------------
(* C1  Filter composition                                                  *)

\* C1 as stated: in a shallow walk every direct entry, and in a deep walk
\* every entry of the tree, that has readable metadata has a record iff its
\* name is not excluded and passes the search pattern.
C1_AsStated ==
    op \in CollectOps =>
        \A i \in Nodes(fs) :
            fs[i].meta_ok /\ (op \in ShallowOps => fs[i].parent = 0)
                => (HasRecord(i) <=> NamePasses(fs[i].name))

\* C1 (amended): the equivalence holds for the entries the walk enumerates,
\* which in a deep walk are those beneath directories it descended into.
C1_FilterComposition ==
    op \in CollectOps =>
        \A i \in Nodes(fs) :
            fs[i].meta_ok /\ Enumerated(i)
                => (HasRecord(i) <=> NamePasses(fs[i].name))

\* A deep walk under a search and an exclusion pattern that recorded an
\* entry below the first level, dropped one for the exclusion pattern and
\* dropped another for the search pattern.
C1_Witness ==
    /\ op = "collect_files_recursive"
    /\ search # None /\ excl # None
    /\ \E i, j, k \in Nodes(fs) :
        /\ fs[i].parent # 0 /\ HasRecord(i)
        /\ NameExcluded(fs[j].name) /\ ~HasRecord(j)
        /\ ~NameExcluded(fs[k].name) /\ ~NameSearched(fs[k].name) /\ ~HasRecord(k)

-----------------------------------------------------------------------------
(* C2  Completeness                                                        *)

DirectEntries == {i \in Nodes(fs) : fs[i].parent = 0}

\* The records are exactly one per entry of S: as many records as entries,
\* every entry of S recorded, and no two records with the same path.
OneRecordPer(S) ==
    /\ Len(files) = Cardinality(S)
    /\ \A i \in S : HasRecord(i)
    /\ \A k, m \in 1..Len(files) : files[k].path = files[m].path => k = m

NoPatterns == search = None /\ excl = None

C2_WitnessShallow ==
    /\ NoPatterns
    /\ op = "collect_files"
    /\ \A i \in Nodes(fs) : fs[i].meta_ok /\ fs[i].listable
    /\ Len(fs) = MaxEntries
    /\ Len(files) = 1

-----------------------------------------------------------------------------
(* C3  Partition invariant                                                 *)

SamePartition(k, m) == files[k].is_directory = files[m].is_directory

\* C3: whatever the criterion, no directory record comes after a
\* non-directory record in the sequence a collect returns.
C3_Partition ==
    op \in CollectOps =>
        \A k, m \in 1..Len(files) :
            k < m /\ files[m].is_directory => files[k].is_directory

\* A Size-sorted result in which the walk met a file before a directory
\* that is smaller than it.
C3_Witness ==
    /\ op = "collect_files"
    /\ sort_by = Some("Size")
    /\ \E i, j \in DirectEntries :
        /\ i < j /\ IsFile(fs, i) /\ IsDir(fs, j)
        /\ get_file_size(fs, j) < get_file_size(fs, i)

-----------------------------------------------------------------------------
(* C4  Size monotonicity                                                   *)

\* C4: under the Size criterion adjacent records of the same partition are
\* in descending order of size.
C4_SizeMonotone ==
    op \in CollectOps /\ sort_by = Some("Size") =>
        \A k \in 1..(Len(files) - 1) :
            SamePartition(k, k + 1) => files[k].size >= files[k + 1].size

\* A Size-sorted deep result with a directory and two files of different
\* sizes that the walk met smallest first.
C4_Witness ==
    /\ op = "collect_files_recursive"
    /\ sort_by = Some("Size")
    /\ \E i, j \in Nodes(fs) :
        /\ i < j /\ IsFile(fs, i) /\ IsFile(fs, j) /\ fs[i].len < fs[j].len
    /\ \E k \in 1..Len(files) : files[k].is_directory
    /\ Len(files) = MaxEntries

-----------------------------------------------------------------------------
(* C5  No criterion behaves as Name                                        *)

\* What the walker that ran returns for the same inputs under criterion sb.
ResultUnder(sb) ==
    CASE op = "collect_files" -> collect_files(fs, root, search, excl, sb)
      [] op = "collect_files_recursive" ->
            collect_files_recursive(fs, root, search, excl, sb)
      [] op = "main_collect_files" -> main_collect_files(fs, root, search, excl, sb)
      [] op = "main_collect_files_recursive" ->
            main_collect_files_recursive(fs, root, search, excl, sb)

\* Directories first and, within each partition, names ascending.
NameOrdered ==
    /\ \A k, m \in 1..Len(files) :
            k < m /\ files[m].is_directory => files[k].is_directory
    /\ \A k \in 1..(Len(files) - 1) :
            SamePartition(k, k + 1) => ~StrLess(files[k + 1].name, files[k].name)

\* C5: a collect without a criterion returns the sequence the Name
\* criterion returns on the same input, which is name-ordered.
C5_DefaultIsName ==
    op \in CollectOps /\ sort_by = None =>
        /\ files = ResultUnder(Some("Name"))
        /\ NameOrdered

\* A collect without a criterion whose walk met the entries out of name
\* order and met a file before a directory.
C5_Witness ==
    /\ op = "collect_files"
    /\ sort_by = None
    /\ \E i, j \in DirectEntries :
        /\ i < j /\ IsFile(fs, i) /\ IsFile(fs, j)
        /\ StrLess(fs[j].name, fs[i].name)
    /\ \E i, j \in DirectEntries : i < j /\ IsFile(fs, i) /\ IsDir(fs, j)

-----------------------------------------------------------------------------
(* C6  Date order                                                          *)

\* The entry a record was made from.
EntryOf(k) == CHOOSE i \in Nodes(fs) : EntryPath(fs, i) = files[k].path

\* Entry i was modified later than entry j; an absent time is not later
\* than anything.
ModifiedLater(i, j) ==
    /\ IsSome(fs[i].mtime)
    /\ IsSome(fs[j].mtime)
    /\ TimeLess(Unwrap(fs[j].mtime), Unwrap(fs[i].mtime))

\* Within each partition no record with an absent modification time comes
\* before one that has a modification time.
AbsentLast ==
    \A k, m \in 1..Len(files) :
        k < m /\ SamePartition(k, m) /\ IsSome(files[m].modified)
            => IsSome(files[k].modified)

\* C6 as stated: under the Date criterion the records of each partition are
\* in descending order of modification time, most recent first, and those
\* without a modification time come last.
C6_AsStated ==
    op \in CollectOps /\ sort_by = Some("Date") =>
        /\ \A k \in 1..(Len(files) - 1) :
                SamePartition(k, k + 1)
                    => ~ModifiedLater(EntryOf(k + 1), EntryOf(k))
        /\ AbsentLast

\* What the code does order by: the formatted text, descending, with the
\* empty string for an absent time.
C6_TextOrder ==
    op \in CollectOps /\ sort_by = Some("Date") =>
        /\ \A k \in 1..(Len(files) - 1) :
                SamePartition(k, k + 1)
                    => ~StrLess(date_key(files[k]), date_key(files[k + 1]))
        /\ AbsentLast

-----------------------------------------------------------------------------
(* C7  Duplicate grouping                                                  *)

\* The regular files beneath the root, at any depth.
RegularFiles == {i \in Nodes(fs) : fs[i].kind = "file"}

\* The regular files the scan can reach: their metadata is readable and
\* every directory above them can be listed.
ReachableFiles ==
    {i \in RegularFiles :
        fs[i].meta_ok /\ \A a \in Ancestors(fs, i) : fs[a].listable}

\* The report is the grouping by size of the files in S: one group per size
\* that two or more files of S share, holding the path of each file of S of
\* that size exactly once, and nothing else.
GroupsExactly(S) ==
    /\ {duplicates[g].size : g \in 1..Len(duplicates)}
          = {z \in {fs[i].len : i \in S} :
                Cardinality({i \in S : fs[i].len = z}) >= 2}
    /\ \A g, h \in 1..Len(duplicates) :
          duplicates[g].size = duplicates[h].size => g = h
    /\ \A g \in 1..Len(duplicates) :
          LET paths == duplicates[g].paths
          IN  /\ Range(paths)
                    = {EntryPath(fs, i) : i \in {j \in S : fs[j].len = duplicates[g].size}}
              /\ \A k, m \in 1..Len(paths) : paths[k] = paths[m] => k = m

\* C7 as stated: for every tree the report groups all regular files beneath
\* the root by size.
C7_AsStated == op = "find_duplicates" => GroupsExactly(RegularFiles)

\* C7 (amended): the report groups the regular files the scan can reach.
C7_DuplicateGroups == op = "find_duplicates" => GroupsExactly(ReachableFiles)

\* A report with one group that holds a file below the first level, over a
\* tree that also has a directory and a file of a size no other file has.
C7_Witness ==
    /\ op = "find_duplicates"
    /\ Len(duplicates) = 1
    /\ \E i \in ReachableFiles :
        /\ fs[i].parent # 0
        /\ EntryPath(fs, i) \in Range(duplicates[1].paths)
    /\ \E i \in ReachableFiles : fs[i].len # duplicates[1].size

\* A report with two groups.
C7_WitnessTwoGroups ==
    /\ op = "find_duplicates"
    /\ Len(duplicates) = 2
    /\ Len(duplicates[1].paths) = 2
    /\ Len(duplicates[2].paths) = 2

-----------------------------------------------------------------------------
(* C8  Auto size formatting                                                *)

\* The position of the blank between the number and the unit.
BlankAt(s) == CHOOSE p \in DOMAIN s : s[p] = 32
NumberPart(s) == SubSeq(s, 1, BlankAt(s) - 1)
UnitPart(s) == SubSeq(s, BlankAt(s) + 1, Len(s))

\* The value of a string of decimal digits.
RECURSIVE DecValue(_)
DecValue(s) ==
    IF s = <<>> THEN 0
    ELSE 10 * DecValue(SubSeq(s, 1, Len(s) - 1)) + (s[Len(s)] - 48)

\* The largest k in 0..4 with 1024^k <= b, for b >= 1: the position of b's
\* leading base-1024 digit, at most 4.
LargestPower(b) ==
    LET top == CHOOSE j \in 1..7 : b[j] # 0 /\ \A m \in (j + 1)..7 : b[m] = 0
    IN  IF top > 5 THEN 4 ELSE top - 1

\* "B", "KB", "MB", "GB", "TB"
UnitNames == <<(<<66>>), <<75, 66>>, <<77, 66>>, <<71, 66>>, <<84, 66>>>>

\* C8: for every byte count b, auto_format_size renders a number, a blank
\* and the largest unit among B, KB, MB, GB, TB whose threshold 1024^k is
\* <= b; under B the number is b as an integer; 0 renders as "0 B", 1023 as
\* "1023 B", 1024 as "1.00 KB" and 1048576 as "1.00 MB".
C8_AutoFormat ==
    op = "auto_format_size" =>
        LET zero == \A j \in 1..7 : arg.bytes[j] = 0
            k == IF zero THEN 0 ELSE LargestPower(arg.bytes)
        IN  /\ Cardinality({p \in DOMAIN out : out[p] = 32}) = 1
            /\ UnitPart(out) = UnitNames[k + 1]
            /\ k = 0 =>
                /\ NumberPart(out) # <<>>
                /\ \A p \in DOMAIN NumberPart(out) : NumberPart(out)[p] \in 48..57
                /\ DecValue(NumberPart(out)) = arg.bytes[1]
            /\ arg.bytes = <<0, 0, 0, 0, 0, 0, 0>> => out = <<48, 32, 66>>
            /\ arg.bytes = <<1023, 0, 0, 0, 0, 0, 0>> => out = <<49, 48, 50, 51, 32, 66>>
            /\ arg.bytes = <<0, 1, 0, 0, 0, 0, 0>> => out = <<49, 46, 48, 48, 32, 75, 66>>
            /\ arg.bytes = <<0, 0, 1, 0, 0, 0, 0>> => out = <<49, 46, 48, 48, 32, 77, 66>>

\* 1024 bytes, the least count rendered in KB, came out as "1.00 KB".
C8_Witness ==
    /\ op = "auto_format_size"
    /\ arg.bytes = <<0, 1, 0, 0, 0, 0, 0>>
    /\ out = <<49, 46, 48, 48, 32, 75, 66>>

\* u64::MAX came out in TB, the largest unit.
C8_WitnessMax ==
    /\ op = "auto_format_size"
    /\ arg.bytes = <<1023, 1023, 1023, 1023, 1023, 1023, 15>>
    /\ UnitPart(out) = <<84, 66>>

-----------------------------------------------------------------------------
(* C9  Detailed permission rendering                                       *)

\* "rwxrwxrwx"
Letters == <<114, 119, 120, 114, 119, 120, 114, 119, 120>>

\* 2^n
RECURSIVE TwoTo(_)
TwoTo(n) == IF n = 0 THEN 1 ELSE 2 * TwoTo(n - 1)

\* C9: for every mode, the detailed rendering has 10 characters; the first
\* is 'd' for a directory and '-' otherwise; character k+1 (k = 1..9) is the
\* k-th letter of "rwxrwxrwx" exactly when the k-th of the low nine mode
\* bits, counted from 0o400 down to 0o001, is set, and '-' otherwise; 0o755
\* on a non-directory gives "-rwxr-xr-x" and 0o644 gives "-rw-r--r--".
C9_Detailed ==
    (op = "format_unix_permissions" /\ arg.detailed) =>
        /\ Len(out) = 10
        /\ out[1] = (IF arg.mode \in 16384..(16384 + 4095) THEN 100 ELSE 45)
        /\ \A k \in 1..9 :
            out[k + 1] = (IF (arg.mode \div TwoTo(9 - k)) % 2 = 1 THEN Letters[k] ELSE 45)
        /\ arg.mode = 32768 + 493 =>
            out = <<45, 114, 119, 120, 114, 45, 120, 114, 45, 120>>
        /\ arg.mode = 32768 + 420 =>
            out = <<45, 114, 119, 45, 114, 45, 45, 114, 45, 45>>

\* A regular file of mode 0o755 came out as "-rwxr-xr-x".
C9_Witness ==
    /\ op = "format_unix_permissions"
    /\ arg.detailed
    /\ arg.mode = 32768 + 493
    /\ out = <<45, 114, 119, 120, 114, 45, 120, 114, 45, 120>>

\* A directory of mode 0o750 came out as "drwxr-x---".
C9_WitnessDir ==
    /\ op = "format_unix_permissions"
    /\ arg.detailed
    /\ arg.mode = 16384 + 488
    /\ out = <<100, 114, 119, 120, 114, 45, 120, 45, 45, 45>>

-----------------------------------------------------------------------------
(* C10  Compact permission rendering                                       *)

\* The parent directory of entry i is writable: its metadata can be read
\* and is not read-only.
ParentWritable(i) ==
    LET parent == IF fs[i].parent = 0 THEN root ELSE fs[fs[i].parent]
    IN  parent.meta_ok /\ ~parent.readonly

\* C10: every record of a collect has permissions "r-x" when its entry is
\* read-only and the parent directory writable, "r--" when the entry is
\* read-only and the parent read-only or of unreadable metadata, "rwx" when
\* entry and parent are writable, "rw-" when the entry is writable and the
\* parent is not; no other value occurs.
C10_Compact ==
    op \in CollectOps =>
        \A k \in 1..Len(files) :
            /\ files[k].permissions
                  \in {<<114, 45, 120>>, <<114, 45, 45>>, <<114, 119, 120>>, <<114, 119, 45>>}
            /\ \A i \in Nodes(fs) :
                files[k].path = EntryPath(fs, i) =>
                    /\ (fs[i].readonly /\ ParentWritable(i))
                          => files[k].permissions = <<114, 45, 120>>
                    /\ (fs[i].readonly /\ ~ParentWritable(i))
                          => files[k].permissions = <<114, 45, 45>>
                    /\ (~fs[i].readonly /\ ParentWritable(i))
                          => files[k].permissions = <<114, 119, 120>>
                    /\ (~fs[i].readonly /\ ~ParentWritable(i))
                          => files[k].permissions = <<114, 119, 45>>

\* A deep collect recorded a writable directory as "rwx" beneath a writable
\* root and, inside it, a read-only entry as "r-x" and, inside a read-only
\* directory, a writable entry as "rw-".
C10_Witness ==
    /\ op \in DeepOps
    /\ \E k, m, n \in 1..Len(files) :
        /\ files[k].is_directory
        /\ files[k].permissions = <<114, 119, 120>>
        /\ files[m].permissions = <<114, 45, 120>>
        /\ files[n].permissions = <<114, 119, 45>>
        /\ \E i, j \in Nodes(fs) :
            /\ fs[i].parent # 0
            /\ fs[j].parent # 0
            /\ fs[fs[j].parent].readonly
            /\ files[m].path = EntryPath(fs, i)
            /\ files[n].path = EntryPath(fs, j)

\* A collect beneath a root whose metadata cannot be read recorded a
\* read-only entry as "r--".
C10_WitnessUnreadableParent ==
    /\ op \in CollectOps
    /\ ~root.meta_ok
    /\ ~root.readonly
    /\ \E k \in 1..Len(files) : files[k].permissions = <<114, 45, 45>>

-----------------------------------------------------------------------------
(* C11  Extremes                                                           *)

\* The aggregator has reported on the current records.
Reported == analysis # <<>> /\ ~analysis.panicked

\* Sizes of records as numbers: a <= b.
SizeLeq(a, b) ==
    a = b \/ \E j \in 1..7 : a[j] < b[j] /\ \A m \in (j + 1)..7 : a[m] = b[m]

\* The records the report is about.
Analysed == analysis.files
NonDirectories == {k \in DOMAIN Analysed : ~Analysed[k].is_directory}
NonEmptyFiles == {k \in NonDirectories : Analysed[k].size # [j \in 1..7 |-> 0]}

\* C11: for every record set, the reported largest file is a non-directory
\* record of maximal size among the non-directory records, and one is
\* reported when there is a non-directory record; the reported smallest file
\* is a non-directory record of size > 0 of minimal size among such records,
\* one is reported when there is such a record, and none when there is none.
C11_Extremes ==
    Reported =>
        /\ IsSome(analysis.largest) <=> NonDirectories # {}
        /\ IsSome(analysis.largest) =>
            /\ Unwrap(analysis.largest) \in NonDirectories
            /\ \A m \in NonDirectories :
                SizeLeq(Analysed[m].size, Analysed[Unwrap(analysis.largest)].size)
        /\ IsSome(analysis.smallest) <=> NonEmptyFiles # {}
        /\ IsSome(analysis.smallest) =>
            /\ Unwrap(analysis.smallest) \in NonEmptyFiles
            /\ \A m \in NonEmptyFiles :
                SizeLeq(Analysed[Unwrap(analysis.smallest)].size, Analysed[m].size)

\* A zero-byte file and a directory: the file is the largest and there is
\* no smallest.
C11_Witness ==
    /\ Reported
    /\ Len(files) = 2
    /\ \E k, m \in DOMAIN Analysed :
        /\ Analysed[k].is_directory
        /\ ~Analysed[m].is_directory
        /\ Analysed[m].size = [j \in 1..7 |-> 0]
        /\ analysis.largest = Some(m)
    /\ analysis.smallest = None

\* Two files of different sizes above 0: one is the largest, the other the
\* smallest.
C11_WitnessBoth ==
    /\ Reported
    /\ NonEmptyFiles = {1, 2}
    /\ IsSome(analysis.largest)
    /\ IsSome(analysis.smallest)
    /\ analysis.largest # analysis.smallest

-----------------------------------------------------------------------------
(* C12  Size distribution                                                  *)

\* The sum of the counts of a distribution's buckets.
RECURSIVE SumOfCounts(_, _)
SumOfCounts(counted, n) ==
    IF n = 0 THEN 0 ELSE Cardinality(counted[n]) + SumOfCounts(counted, n - 1)

\* The printed lines are those of the buckets whose count is not 0, in
\* table order, each with its count.
PrintsNonEmpty(lines, table, counted) ==
    LET shown == {n \in DOMAIN table : counted[n] # {}}
    IN  /\ Len(lines) = Cardinality(shown)
        /\ \A n \in shown :
            \E l \in DOMAIN lines :
                /\ lines[l].label = table[n].label
                /\ lines[l].count = Cardinality(counted[n])
                /\ l = Cardinality({m \in shown : m <= n})

\* C12 as stated: every record, of any size from 0 to 2^64-1, is counted in
\* exactly one of the six size buckets, the bucket counts sum to the number
\* of records, and a bucket is printed only when its count is not 0.
C12_AsStated ==
    Reported =>
        /\ \A k \in DOMAIN Analysed :
            Cardinality({n \in DOMAIN analysis.size_counted :
                            k \in analysis.size_counted[n]}) = 1
        /\ SumOfCounts(analysis.size_counted, 6) = Len(files)
        /\ PrintsNonEmpty(analysis.size_distribution, size_ranges, analysis.size_counted)

\* What does hold: every record of a size below 2^64-1 is counted in exactly
\* one bucket, the one of the stated bounds that holds its size; a record of
\* size 2^64-1 is counted in none; only non-empty buckets are printed.
C12_BelowMax ==
    Reported =>
        /\ \A k \in DOMAIN Analysed :
            LET z == Analysed[k].size
                bucket ==
                    IF z = ToU64(0) THEN 1
                    ELSE IF ~SizeLeq(ToU64(1024), z) THEN 2
                    ELSE IF ~SizeLeq(ToU64(1024 * 1024), z) THEN 3
                    ELSE IF ~SizeLeq(ToU64(100 * 1024 * 1024), z) THEN 4
                    ELSE IF ~SizeLeq(ToU64(1024 * 1024 * 1024), z) THEN 5
                    ELSE 6
            IN  {n \in DOMAIN analysis.size_counted : k \in analysis.size_counted[n]}
                    = IF z = <<1023, 1023, 1023, 1023, 1023, 1023, 15>> THEN {}
                      ELSE {bucket}
        /\ PrintsNonEmpty(analysis.size_distribution, size_ranges, analysis.size_counted)

\* A record of size 2^64-1 was analysed and counted in no bucket.
C12_WitnessMax ==
    /\ Reported
    /\ \E k \in DOMAIN Analysed :
        /\ Analysed[k].size = <<1023, 1023, 1023, 1023, 1023, 1023, 15>>
        /\ \A n \in DOMAIN analysis.size_counted : k \notin analysis.size_counted[n]

-----------------------------------------------------------------------------
(* C13  Age distribution                                                   *)

\* The times whose rendering "YYYY-MM-DD hh:mm:ss UTC" a record's text is.
DenotedTimes(text) ==
    {t \in {T_2023_09_10, T_2023_10_09, T_9999_12_31, T_10000_01_01} :
        text = Some(FormatTime(t))}

\* The parser accepts the record's text: it renders a time of a four-digit
\* year, and the parser takes the blank between date and time.
Parseable(k) ==
    /\ arg.lenient
    /\ \E t \in DenotedTimes(Analysed[k].modified) : t[1] <= 9999

\* The seconds from t to now, negative when t is later than now.
Elapsed(now, t) ==
    (DaysFromCivil(now) - DaysFromCivil(t)) * 86400
        + (now[4] * 3600 + now[5] * 60 + now[6])
        - (t[4] * 3600 + t[5] * 60 + t[6])

\* The age buckets that hold a number of seconds: one, or none below 0.
AgeBuckets(secs) ==
    LET lower == <<0, 86400, 604800, 2592000, 31536000>>
    IN  {n \in 1..5 : lower[n] <= secs /\ (n < 5 => secs < lower[n + 1])}

AgeCountedIn(k) ==
    {n \in DOMAIN analysis.age_counted : k \in analysis.age_counted[n]}

\* C13 as stated: a record with a parseable modification timestamp is
\* counted in exactly one age bucket, the one that holds the whole seconds
\* elapsed from its modification time to the evaluation time; a record with
\* an absent or unparseable timestamp is counted in none.
C13_AsStated ==
    Reported =>
        \A k \in DOMAIN Analysed :
            IF Parseable(k)
            THEN \E t \in DenotedTimes(Analysed[k].modified) :
                    /\ Cardinality(AgeCountedIn(k)) = 1
                    /\ AgeCountedIn(k) = AgeBuckets(Elapsed(analysis.now, t))
            ELSE AgeCountedIn(k) = {}

\* C13 (amended): as stated, with the elapsed seconds taken as 0 when the
\* modification time is later than the evaluation time.
C13_AgeBuckets ==
    Reported =>
        \A k \in DOMAIN Analysed :
            IF Parseable(k)
            THEN \E t \in DenotedTimes(Analysed[k].modified) :
                    LET secs == IF TimeLess(analysis.now, t) THEN 0
                                ELSE Elapsed(analysis.now, t)
                    IN  /\ Cardinality(AgeCountedIn(k)) = 1
                        /\ AgeCountedIn(k) = AgeBuckets(secs)
            ELSE AgeCountedIn(k) = {}

\* At an evaluation time 86399 s after one record's modification and before
\* another's, both were counted under "Today"; next to them a record
\* without a modification text was counted nowhere.
C13_Witness ==
    /\ Reported
    /\ analysis.now = <<2023, 9, 11, 8, 5, 6>>
    /\ \E k, m \in DOMAIN Analysed :
        /\ Analysed[k].modified = Some(FormatTime(T_2023_09_10))
        /\ Analysed[m].modified = Some(FormatTime(T_2023_10_09))
        /\ AgeCountedIn(k) = {1}
        /\ AgeCountedIn(m) = {1}

\* A record modified exactly 365 days before the evaluation was counted
\* under "Older", and a record of the year 10000 in no bucket.
C13_WitnessOlder ==
    /\ Reported
    /\ analysis.now = <<2024, 9, 9, 8, 5, 7>>
    /\ \E k, m \in DOMAIN Analysed :
        /\ Analysed[k].modified = Some(FormatTime(T_2023_09_10))
        /\ Analysed[m].modified = Some(FormatTime(T_10000_01_01))
        /\ AgeCountedIn(k) = {5}
        /\ AgeCountedIn(m) = {}

-----------------------------------------------------------------------------
(* C14  Permission summary                                                 *)

\* The analysed records whose permissions contain the character c.
RecordsWithChar(c) ==
    {k \in DOMAIN Analysed :
        \E p \in DOMAIN Analysed[k].permissions : Analysed[k].permissions[p] = c}

\* The analysed records whose permissions are the given text.
RecordsWithForm(form) == {k \in DOMAIN Analysed : Analysed[k].permissions = form}

\* The report is about the records of a collect.
ReportedOnCollect == Reported /\ op \in CollectOps /\ analysis.files = records_of(files, op)

\* C14 as stated: over the records of a collect, 'Readable' counts the
\* records whose permissions contain 'r', 'Writable' those containing 'w',
\* 'Read-only' those equal to "r--" and 'Read-write' those equal to "rw-".
C14_AsStated ==
    ReportedOnCollect =>
        /\ analysis.readable.count = Cardinality(RecordsWithChar(114))
        /\ analysis.writable.count = Cardinality(RecordsWithChar(119))
        /\ analysis.readable_only.count = Cardinality(RecordsWithForm(<<114, 45, 45>>))
        /\ analysis.writable_only.count = Cardinality(RecordsWithForm(<<114, 119, 45>>))

\* What does hold: 'Readable' and 'Writable' are as stated; 'Read-only' and
\* 'Read-write' are 0 whatever the records.
C14_Counts ==
    ReportedOnCollect =>
        /\ analysis.readable.count = Cardinality(RecordsWithChar(114))
        /\ analysis.writable.count = Cardinality(RecordsWithChar(119))
        /\ analysis.readable_only.count = 0
        /\ analysis.writable_only.count = 0

\* A report on a collect that returned a "r--" record and a "rw-" record.
C14_WitnessForms ==
    /\ ReportedOnCollect
    /\ Cardinality(RecordsWithForm(<<114, 45, 45>>)) >= 1
    /\ Cardinality(RecordsWithForm(<<114, 119, 45>>)) >= 1

-----------------------------------------------------------------------------
(* C15  Directory sizes in a shallow walk                                  *)

\* The sum of the byte lengths of the entries in S.
RECURSIVE SumOfLengths(_)
SumOfLengths(S) ==
    IF S = {} THEN 0
    ELSE LET i == CHOOSE x \in S : TRUE
         IN  fs[i].len + SumOfLengths(S \ {i})

\* The regular files at every depth beneath directory d.
FilesBeneath(d) == {i \in Nodes(fs) : fs[i].kind = "file" /\ d \in Ancestors(fs, i)}

\* Those of them the size computation reaches: d and every directory
\* between d and the file can be listed, and the file's metadata is
\* readable.
FilesReachedBeneath(d) ==
    {i \in FilesBeneath(d) :
        /\ fs[i].meta_ok
        /\ fs[d].listable
        /\ \A a \in Ancestors(fs, i) :
              (d \in Ancestors(fs, a)) => (fs[a].listable /\ fs[a].meta_ok)}

\* C15 as stated: in a shallow walk every directory record's size is the sum
\* of the lengths of all regular files at every depth beneath it, whatever
\* the patterns, and a file record's size is its own length.
C15_AsStated ==
    op \in ShallowOps =>
        \A k \in 1..Len(files) : \A i \in Nodes(fs) :
            files[k].path = EntryPath(fs, i) =>
                files[k].size = IF fs[i].kind = "dir"
                                THEN SumOfLengths(FilesBeneath(i))
                                ELSE fs[i].len

\* C15 (amended): the sum is over the regular files the size computation
\* reaches.
C15_ShallowSizes ==
    op \in ShallowOps =>
        \A k \in 1..Len(files) : \A i \in Nodes(fs) :
            files[k].path = EntryPath(fs, i) =>
                files[k].size = IF fs[i].kind = "dir"
                                THEN SumOfLengths(FilesReachedBeneath(i))
                                ELSE fs[i].len

\* A shallow walk under a search pattern recorded a directory whose size is
\* the length of a file beneath it whose name fails the pattern, and differs
\* from the directory's own length.
C15_Witness ==
    /\ op \in ShallowOps
    /\ search # None
    /\ \E k \in 1..Len(files) : \E d, i \in Nodes(fs) :
        /\ files[k].is_directory
        /\ files[k].path = EntryPath(fs, d)
        /\ i \in FilesReachedBeneath(d)
        /\ ~NameSearched(fs[i].name)
        /\ files[k].size = fs[i].len
        /\ files[k].size # fs[d].len

\* A shallow walk recorded a directory whose size is the length of a file
\* two levels beneath it.
C15_WitnessDeepFile ==
    /\ op \in ShallowOps
    /\ \E k \in 1..Len(files) : \E d, i \in Nodes(fs) :
        /\ files[k].path = EntryPath(fs, d)
        /\ i \in FilesReachedBeneath(d)
        /\ fs[i].parent # d
        /\ files[k].size = fs[i].len

-----------------------------------------------------------------------------
(* C16  Directory sizes in a deep walk                                     *)

\* C16 as stated: in a deep walk every directory record's size is the
\* recursive sum over its descendants, the value the shallow walk reports
\* for that directory, not the directory entry's own metadata length.
C16_AsStated ==
    op \in DeepOps =>
        \A k \in 1..Len(files) : \A i \in Nodes(fs) :
            (files[k].path = EntryPath(fs, i) /\ fs[i].kind = "dir") =>
                files[k].size = SumOfLengths(FilesReachedBeneath(i))

\* What does hold: the deep walk of collect.rs records the recursive sum,
\* the deep walk of main.rs the directory entry's own metadata length.
C16_PerWalker ==
    op \in DeepOps =>
        \A k \in 1..Len(files) : \A i \in Nodes(fs) :
            (files[k].path = EntryPath(fs, i) /\ fs[i].kind = "dir") =>
                files[k].size = IF op = "collect_files_recursive"
                                THEN SumOfLengths(FilesReachedBeneath(i))
                                ELSE fs[i].len

\* main.rs's deep walk recorded a directory with its own length, which is
\* not the sum of the lengths of the files beneath it.
C16_WitnessOwnLength ==
    /\ op = "main_collect_files_recursive"
    /\ \E k \in 1..Len(files) : \E i \in Nodes(fs) :
        /\ files[k].path = EntryPath(fs, i)
        /\ fs[i].kind = "dir"
        /\ FilesReachedBeneath(i) # {}
        /\ files[k].size = fs[i].len
        /\ files[k].size # SumOfLengths(FilesReachedBeneath(i))

-----------------------------------------------------------------------------
(* C17  Invalid filter patterns                                            *)

\* The search pattern is classified as a regex and does not compile.
InvalidSearch ==
    /\ search # None
    /\ LET p == Unwrap(search)
       IN  /\ \/ p[1] = 94
              \/ p[Len(p)] = 36
              \/ \E k \in 1..(Len(p) - 1) : p[k] = 46 /\ p[k + 1] = 42
              \/ 91 \in Range(p)
              \/ 93 \in Range(p)
           /\ ~RegexCompiles(p)

\* The exclusion pattern does not compile.
InvalidExclusion == excl # None /\ ~RegexCompiles(Unwrap(excl))

\* What the walk that ran returns when given exclusion pattern ex.
ResultWithExclusion(ex) ==
    CASE op = "collect_files" -> collect_files(fs, root, search, ex, sort_by)
      [] op = "collect_files_recursive" -> collect_files_recursive(fs, root, search, ex, sort_by)
      [] op = "main_collect_files" -> main_collect_files(fs, root, search, ex, sort_by)
      [] op = "main_collect_files_recursive" ->
            main_collect_files_recursive(fs, root, search, ex, sort_by)

\* C17: a search pattern classified as a regex that does not compile makes
\* collect return no records; an exclusion pattern that does not compile
\* makes collect return what it returns without an exclusion pattern; in
\* both cases the walk completes without abort or error.
C17_InvalidPatterns ==
    op \in CollectOps =>
        /\ InvalidSearch => (files = <<>> /\ exit = None)
        /\ InvalidExclusion => (files = ResultWithExclusion(None) /\ exit = None)

\* A walk under an exclusion pattern that does not compile, and a search
\* pattern that does, returned a record.
C17_Witness ==
    /\ op \in CollectOps
    /\ InvalidExclusion
    /\ search # None
    /\ files # <<>>
    /\ exit = None

\* A walk under a search pattern that does not compile returned nothing from
\* a root that has a readable entry, and ended normally.
C17_WitnessSearch ==
    /\ op \in CollectOps
    /\ InvalidSearch
    /\ \E i \in Nodes(fs) : fs[i].parent = 0 /\ fs[i].meta_ok
    /\ files = <<>>
    /\ exit = None

-----------------------------------------------------------------------------
(* C18  Root precondition                                                  *)

\* The run ended in an explicit error: a message on stderr and a non-zero
\* exit status.
ExplicitError == out.stderr /\ exit # None /\ Unwrap(exit) # 0

\* The root path is missing, or exists and is neither a regular file nor a
\* directory.
BadRoot == arg.root_kind \in {"missing", "other"}

\* C18 (as stated): whenever the root path does not exist, or exists but is
\* neither a regular file nor a directory, the program reports an explicit
\* error and terminates with non-zero status instead of running collect,
\* find_duplicates or the tree on it.
C18_AsStated ==
    (op # "none" /\ BadRoot) =>
        /\ ExplicitError
        /\ op \notin {"main_collect_files", "main_collect_files_recursive",
                      "find_duplicates", "print_tree"}

\* C18 (what the program does): a missing root always ends in an explicit
\* error; a root that exists and is neither file nor directory does so
\* exactly under --tree or --properties, and is otherwise handed to
\* find_duplicates or collect, whose empty result is printed and the run
\* ends normally.
C18_RootHandling ==
    (op # "none" /\ BadRoot) =>
        IF arg.root_kind = "missing" \/ arg.tree \/ arg.properties
        THEN ExplicitError /\ files = <<>> /\ duplicates = <<>>
        ELSE /\ exit = None
             /\ ~out.stderr
             /\ op = (IF arg.duplicates THEN "find_duplicates"
                      ELSE IF arg.recursive THEN "main_collect_files_recursive"
                      ELSE "main_collect_files")
             /\ out.message \in {"No duplicate files found.", "No files found.",
                                 "No files found matching pattern:"}

\* A run on a root that is neither file nor directory, without options,
\* printed "No files found." and ended normally.
C18_WitnessOther ==
    /\ op = "main_collect_files"
    /\ arg.root_kind = "other"
    /\ out.message = "No files found."
    /\ exit = None

\* A run on a missing root ended in the explicit error.
C18_WitnessMissing ==
    /\ op = "not_exist"
    /\ arg.root_kind = "missing"
    /\ arg.duplicates
    /\ exit = Some(1)

-----------------------------------------------------------------------------
(* C19  is_directory and file_type                                         *)

\* C19: every record produced by shallow or deep collect has is_directory
\* true if and only if its file_type equals "directory".
C19_DirectoryType ==
    op \in CollectOps =>
        \A k \in DOMAIN files :
            files[k].is_directory <=> (files[k].file_type = "directory")

\* A collect returned a directory record and a record of a file whose type
\* was inferred.
C19_Witness ==
    /\ op \in CollectOps
    /\ \E k \in DOMAIN files : files[k].is_directory /\ files[k].file_type = "directory"
    /\ \E k \in DOMAIN files :
           ~files[k].is_directory /\ files[k].file_type \notin {"unknown", "directory"}

-----------------------------------------------------------------------------
(* C20  Deep-walk descent                                                  *)

\* Directory a can be descended into at all: its metadata can be read and
\* it can be listed.
Readable(a) == fs[a].meta_ok /\ fs[a].listable

\* Every directory between the root and entry i passed the Pattern Filter.
AncestorsPass(i) == \A a \in Ancestors(fs, i) : NamePasses(fs[a].name)

\* C20 (as stated): in a deep collect no entry beneath a subdirectory that
\* failed the Pattern Filter is recorded, and every subdirectory that passed
\* (and is readable) is fully enumerated: each entry beneath it that itself
\* passes the filter and has readable metadata is recorded.
C20_AsStated ==
    op \in DeepOps =>
        \A i \in Nodes(fs) :
            /\ ~AncestorsPass(i) => ~HasRecord(i)
            /\ (/\ AncestorsPass(i)
                /\ \A a \in Ancestors(fs, i) : Readable(a)
                /\ fs[i].meta_ok
                /\ NamePasses(fs[i].name)) => HasRecord(i)

\* C20 (per walker): main.rs's deep walk descends exactly into the readable
\* subdirectories that passed the filter; collect.rs's deep walk descends
\* into every readable subdirectory that is not excluded, whether or not its
\* name matches the search pattern, and records the passing entries beneath.
C20_PerWalker ==
    /\ op = "main_collect_files_recursive" =>
          \A i \in Nodes(fs) :
              HasRecord(i) <=>
                  /\ AncestorsPass(i)
                  /\ \A a \in Ancestors(fs, i) : Readable(a)
                  /\ fs[i].meta_ok
                  /\ NamePasses(fs[i].name)
    /\ op = "collect_files_recursive" =>
          \A i \in Nodes(fs) :
              HasRecord(i) <=>
                  /\ \A a \in Ancestors(fs, i) : Readable(a) /\ ~NameExcluded(fs[a].name)
                  /\ fs[i].meta_ok
                  /\ NamePasses(fs[i].name)

\* collect.rs's deep walk recorded an entry beneath a subdirectory whose
\* name is not excluded and does not match the search pattern.
C20_WitnessBeneathFailed ==
    /\ op = "collect_files_recursive"
    /\ search # None
    /\ \E i \in Nodes(fs) :
        /\ HasRecord(i)
        /\ fs[i].parent # 0
        /\ ~NameSearched(fs[fs[i].parent].name)
        /\ ~HasRecord(fs[i].parent)

\* main.rs's deep walk recorded nothing beneath a subdirectory that failed
\* the search pattern, although an entry beneath it passes the filter.
C20_WitnessSkipped ==
    /\ op = "main_collect_files_recursive"
    /\ search # None
    /\ \E i \in Nodes(fs) :
        /\ fs[i].parent # 0
        /\ fs[i].meta_ok
        /\ NamePasses(fs[i].name)
        /\ ~NameSearched(fs[fs[i].parent].name)
        /\ ~HasRecord(i)

-----------------------------------------------------------------------------
(* C21  Fail-open walk                                                     *)

\* The tree as it would be with every entry's metadata readable and every
\* directory listable.
Healed == [i \in DOMAIN fs |-> [fs[i] EXCEPT !.meta_ok = TRUE, !.listable = TRUE]]

\* The entry whose metadata cannot be read.
Unreadable == {i \in Nodes(fs) : ~fs[i].meta_ok}

\* The entries beneath a directory that cannot be listed.
BeneathUnlistable == {i \in Nodes(fs) : \E a \in Ancestors(fs, i) : ~fs[a].listable}

\* What the failures cost a walk: the unreadable entry and, where the walk
\* goes below the first level, the entries beneath the unlistable directory.
Dropped == Unreadable \cup (IF op \in ShallowOps THEN {} ELSE BeneathUnlistable)

\* What the walk that ran returns on tree f.
ResultOn(f) ==
    CASE op = "collect_files" -> collect_files(f, root, search, excl, sort_by)
      [] op = "collect_files_recursive" -> collect_files_recursive(f, root, search, excl, sort_by)
      [] op = "main_collect_files" -> main_collect_files(f, root, search, excl, sort_by)
      [] op = "main_collect_files_recursive" ->
            main_collect_files_recursive(f, root, search, excl, sort_by)

PathsOf(s) == [k \in DOMAIN s |-> s[k].path]

\* C21: an entry whose metadata cannot be read is omitted alone, and nothing
\* beneath a directory that cannot be listed is recorded, while every other
\* entry is recorded as on the tree without the failure: the paths collect
\* returns are those it returns on the healed tree, less the dropped ones,
\* in the same order; find_duplicates groups the regular files that are not
\* dropped; neither aborts or reports an error.
C21_FailOpen ==
    /\ op \in CollectOps =>
          LET Kept(p) == \A i \in Dropped : p # EntryPath(fs, i)
          IN  /\ PathsOf(files) = SelectSeq(PathsOf(ResultOn(Healed)), Kept)
              /\ exit = None
    /\ op = "find_duplicates" =>
          /\ GroupsExactly(RegularFiles \ Dropped)
          /\ exit = None

\* A deep walk met a directory it could not list: it recorded the directory
\* and its sibling, and nothing of what lies beneath the directory.
C21_Witness ==
    /\ op = "collect_files_recursive"
    /\ \E a, b, c \in Nodes(fs) :
        /\ ~fs[a].listable /\ fs[c].parent = a
        /\ b # a /\ fs[b].parent = fs[a].parent
        /\ HasRecord(a) /\ HasRecord(b) /\ ~HasRecord(c)
    /\ Len(ResultOn(Healed)) = 3

\* A walk met an entry whose metadata it could not read: it recorded the two
\* other entries of the same directory.
C21_WitnessMetadata ==
    /\ op \in CollectOps
    /\ \E a, b, c \in Nodes(fs) :
        /\ ~fs[a].meta_ok /\ b # c
        /\ fs[b].parent = fs[a].parent /\ fs[c].parent = fs[a].parent
        /\ a < b /\ a < c
        /\ ~HasRecord(a) /\ HasRecord(b) /\ HasRecord(c)

\* find_duplicates met an unreadable file and reported the group of the two
\* files beside it.
C21_WitnessDuplicates ==
    /\ op = "find_duplicates"
    /\ Unreadable # {}
    /\ Len(duplicates) = 1
    /\ exit = None

-----------------------------------------------------------------------------
(* C22  The sorter only reorders                                           *)

\* The records the walk that ran accumulated, in the order it pushed them.
Walked ==
    LET rx == excluding_regex(excl)
    IN  CASE op = "collect_files" -> collect_recursive(fs, root, 0, 1, search, rx)
          [] op = "collect_files_recursive" -> collect_all_recursive(fs, root, 0, 1, search, rx)
          [] op = "main_collect_files" -> main_collect_recursive(fs, root, 0, 1, search, rx)
          [] op = "main_collect_files_recursive" ->
                main_collect_all_recursive(fs, root, 0, 1, search, rx)

\* How many times record x occurs in sequence s.
Occurrences(x, s) == Cardinality({k \in DOMAIN s : s[k] = x})

\* C22: for every criterion the sequence collect returns is a permutation
\* of the records the walk accumulated: each record, every field as the walk
\* made it, occurs as often in the one as in the other.
C22_Permutation ==
    op \in CollectOps =>
        /\ Len(files) = Len(Walked)
        /\ \A x \in Range(files) \cup Range(Walked) :
              Occurrences(x, files) = Occurrences(x, Walked)

\* A Size-sorted result of three records, two of them of one size in one
\* partition, that is not in the order the walk pushed them.
C22_Witness ==
    /\ op \in CollectOps
    /\ sort_by = Some("Size")
    /\ Len(files) = 3
    /\ files # Walked
    /\ \E k \in 1..2 : SamePartition(k, k + 1) /\ files[k].size = files[k + 1].size

-----------------------------------------------------------------------------
(* C23  Sorting is idempotent and stable                                   *)

\* The criterion in force: the one given, or the default.
Criterion == IF IsSome(sort_by) THEN Unwrap(sort_by) ELSE "default"

\* Where the walk pushed the record now at position k.
PushedAt(k) == CHOOSE w \in DOMAIN Walked : Walked[w] = files[k]

\* C23: sorting the returned sequence again by the same criterion returns
\* the identical sequence, and records that compare Equal under the
\* criterion are in the order in which the walk pushed them.
C23_IdempotentStable ==
    op \in CollectOps =>
        /\ sort_files(files, sort_by) = files
        /\ \A k, m \in 1..Len(files) :
              k < m /\ compare(Criterion, files[k], files[m]) = "Equal"
                  => PushedAt(k) < PushedAt(m)

\* A sorted result in which two records that compare Equal follow, in the
\* order the walk pushed them, a record the walk pushed after both.
C23_Witness ==
    /\ op \in CollectOps
    /\ Len(files) = 3
    /\ compare(Criterion, files[2], files[3]) = "Equal"
    /\ PushedAt(1) = 3
    /\ PushedAt(2) = 1
    /\ PushedAt(3) = 2

-----------------------------------------------------------------------------
(* C24  Termination of the recursive routines                              *)

\* The routine has returned from the call on the root.
Done == walk # <<>> /\ walk.done

\* The directories of the tree, the root (0) among them.
Directories == {0} \cup {i \in Nodes(fs) : fs[i].kind = "dir"}

\* Directory e is listed from directory d: an entry of d is e or a link to e.
Leads(d, e) ==
    \E i \in Nodes(fs) :
        fs[i].parent = d /\ FollowsToDir(fs, root, i) /\ Target(fs, i) = e

\* The directories within k hops of the directories in S.
RECURSIVE Within(_, _)
Within(S, k) ==
    IF k = 0 THEN S
    ELSE Within(S \cup {e \in Directories : \E d \in S : Leads(d, e)}, k - 1)

ReachableDirectories == Within({0}, Len(fs))

\* No directory is reachable from itself.
NoLinkCycle ==
    \A d \in Directories :
        d \notin Within({e \in Directories : Leads(d, e)}, Len(fs))

\* The directory a visited path ends in.
DirOf(path) == IF path = <<>> THEN 0 ELSE Target(fs, path[Len(path)])

\* The paths from the root that lead through directories only.
DirPaths ==
    {p \in UNION {[1..m -> Nodes(fs)] : m \in 0..Len(fs)} :
        \A k \in 1..Len(p) :
            /\ fs[p[k]].parent = (IF k = 1 THEN 0 ELSE Target(fs, p[k - 1]))
            /\ FollowsToDir(fs, root, p[k])}

IsPrefix(p, q) == Len(p) <= Len(q) /\ SubSeq(q, 1, Len(p)) = p

\* Depth first: a directory is listed from one that was listed before it,
\* and once the walk has left the subtree of a path it does not come back.
DepthFirst ==
    LET v == walk.visited
    IN  /\ \A k \in 1..Len(v) :
              v[k] # <<>> => \E j \in 1..(k - 1) : v[j] = SubSeq(v[k], 1, Len(v[k]) - 1)
        /\ \A j, k, m \in 1..Len(v) :
              j < k /\ k < m /\ IsPrefix(v[j], v[m]) => IsPrefix(v[j], v[k])

\* A step leaves the accumulator alone or appends one item to it.
AppendOnly ==
    walk # <<>> =>
        \/ walk'.acc = walk.acc
        \/ Len(walk'.acc) = Len(walk.acc) + 1
              /\ SubSeq(walk'.acc, 1, Len(walk.acc)) = walk.acc

\* C24 (as stated): on a tree in which no directory is reachable from
\* itself, each routine runs to completion having listed every reachable
\* directory exactly once, depth first, appending to one accumulator.
C24_AsStated ==
    /\ [](NoLinkCycle /\ Done =>
            /\ \A d \in ReachableDirectories :
                  Cardinality({k \in 1..Len(walk.visited) : DirOf(walk.visited[k]) = d}) = 1
            /\ DepthFirst)
    /\ (NoLinkCycle ~> Done)
    /\ [][AppendOnly]_vars

\* C24 (amended): each routine runs to completion having listed every
\* reachable directory exactly once for each path that leads to it from the
\* root, links followed: no path twice and, at the end, every such path.
C24_Termination ==
    /\ [](NoLinkCycle /\ walk # <<>> =>
            /\ \A j, k \in 1..Len(walk.visited) :
                  walk.visited[j] = walk.visited[k] => j = k
            /\ Range(walk.visited) \subseteq DirPaths
            /\ Done => Range(walk.visited) = DirPaths
            /\ DepthFirst)
    /\ (NoLinkCycle ~> Done)
    /\ [][AppendOnly]_vars

\* A finished walk of a tree three directories deep, each listed once.
C24_Witness ==
    /\ Done
    /\ \E a, b, c \in Nodes(fs) :
        /\ fs[a].parent = 0 /\ fs[b].parent = a /\ fs[c].parent = b
        /\ fs[c].kind = "dir"
    /\ Len(walk.visited) = 4
    /\ Len(walk.acc) = 3

\* A finished walk that listed one directory twice: under its own path and
\* under the path of a link to it.
C24_WitnessTwice ==
    /\ Done
    /\ NoLinkCycle
    /\ \E j, k \in 1..Len(walk.visited) :
        j # k /\ DirOf(walk.visited[j]) = DirOf(walk.visited[k])

\* A walk on a tree with a link to a directory above it, still descending
\* when the stack has reached the model's depth.
C24_WitnessCycle ==
    /\ walk # <<>>
    /\ ~NoLinkCycle
    /\ Len(walk.stack) = MaxDepth

\* On a tree without links the deep walk of collect.rs pushes, step by
\* step, the records the walker returns.
WalkAgrees ==
    (Done /\ walk.routine = "collect_all_recursive"
          /\ \A i \in Nodes(fs) : fs[i].kind # "link") =>
        [k \in DOMAIN walk.acc |-> EntryPath(fs, walk.acc[k][Len(walk.acc[k])])]
            = PathsOf(collect_all_recursive(fs, root, 0, 1, search, excluding_regex(excl)))

-----------------------------------------------------------------------------
(* C25  The two deep walks                                                 *)

\* The deep result of the implementation that did not run.
OtherDeepResult ==
    IF op = "collect_files_recursive"
    THEN main_collect_files_recursive(fs, root, search, excl, sort_by)
    ELSE collect_files_recursive(fs, root, search, excl, sort_by)

PathSizes(s) == {<<s[k].path, s[k].size>> : k \in DOMAIN s}
PathSet(s) == {s[k].path : k \in DOMAIN s}
FileRecords(s) == SelectSeq(s, LAMBDA x : ~x.is_directory)

\* C25 (as stated): for every tree and every pattern pair the deep walks of
\* main.rs and of collect.rs return the same set of record paths, with the
\* same size for each record.
C25_AsStated ==
    op \in DeepOps => PathSizes(files) = PathSizes(OtherDeepResult)

\* C25 (where the two agree): every record of main.rs's deep walk is a
\* record of collect.rs's; without a search pattern the two return the same
\* paths; and the records of non-directories have the same sizes in both.
C25_Agreement ==
    op \in DeepOps =>
        LET main_rs == IF op = "main_collect_files_recursive" THEN files ELSE OtherDeepResult
            collect_rs == IF op = "collect_files_recursive" THEN files ELSE OtherDeepResult
        IN  /\ PathSet(main_rs) \subseteq PathSet(collect_rs)
            /\ search = None => PathSet(main_rs) = PathSet(collect_rs)
            /\ PathSizes(FileRecords(main_rs)) \subseteq PathSizes(FileRecords(collect_rs))

\* Without any pattern the two deep walks returned the same paths and a
\* different size for a directory.
C25_WitnessSize ==
    /\ op = "main_collect_files_recursive"
    /\ search = None /\ excl = None
    /\ PathSet(files) = PathSet(OtherDeepResult)
    /\ \E k \in DOMAIN files : \E m \in DOMAIN OtherDeepResult :
        /\ files[k].path = OtherDeepResult[m].path
        /\ files[k].is_directory
        /\ files[k].size # OtherDeepResult[m].size

\* Under a search pattern collect.rs's deep walk returned a path that
\* main.rs's does not return.
C25_WitnessPaths ==
    /\ op = "collect_files_recursive"
    /\ search # None
    /\ PathSet(files) # PathSet(OtherDeepResult)


-----------------------------------------------------------------------------
(* C26: the export file                                                    *)

ListingModes == {"main_collect_files", "main_collect_files_recursive"}

\* The run has ended and an export file was written, or its writing tried.
ExportTried == op # "none" /\ out.export # "none"

\* The cases in which the option is ignored: a search pattern, an empty
\* result, a mode other than the plain listing, or another file name.
ExportIgnored ==
    /\ op # "none"
    /\ arg.export # "none"
    /\ \/ IsSome(search)
       \/ files = <<>>
       \/ op \notin ListingModes
       \/ arg.export \notin {".json", ".csv"}

\* The run reports an error exactly where the same run without --export
\* would report one.
NoErrorForExport ==
    /\ out.stderr <=> program_mode([arg EXCEPT !.export = "none"], search, excl, sort_by)
                          \in error_modes
    /\ exit # Some(101)

\* C26: an export file is written only by the plain listing of a non-empty
\* result without a search pattern and only under a name ending in ".json"
\* or ".csv"; in every other case given --export nothing is written and no
\* error is reported for the option.
C26_ExportOnlyListing ==
    /\ ExportTried =>
          /\ op \in ListingModes
          /\ search = None
          /\ files # <<>>
          /\ arg.export \in {".json", ".csv"}
    /\ ExportIgnored => out.export = "none" /\ NoErrorForExport

\* A plain listing wrote its records as JSON.
C26_Witness ==
    /\ op = "main_collect_files"
    /\ arg.export = ".json"
    /\ out.export = "json"
    /\ files # <<>>

\* A disk listing of a non-empty mount point, and a listing under a search
\* pattern, left the export file unwritten.
C26_WitnessDisk ==
    /\ op = "disk_collect_files"
    /\ arg.export = ".csv"
    /\ files # <<>>
    /\ out.export = "none"
    /\ exit = None

C26_WitnessSearch ==
    /\ op = "main_collect_files_recursive"
    /\ arg.export = ".json"
    /\ IsSome(search)
    /\ files # <<>>
    /\ out.export = "none"

\* A name with another suffix was given to a plain listing.
C26_WitnessOtherName ==
    /\ op = "main_collect_files"
    /\ arg.export = ".txt"
    /\ files # <<>>
    /\ out.export = "none"

-----------------------------------------------------------------------------
(* C27: mode dispatch                                                      *)

\* The modes in their stated precedence, highest first.
ModeRank ==
    [version |-> 1, help |-> 2, disk |-> 3, whole |-> 4, file |-> 5, directory |-> 6,
     direct |-> 7, tree |-> 8, properties |-> 9, duplicates |-> 10, listing |-> 11]

\* The mode the stated precedence selects for the options given.
StatedMode ==
    IF arg.version THEN "version"
    ELSE IF arg.help THEN "help"
    ELSE IF arg.disk # "none" THEN "disk"
    ELSE IF arg.whole THEN "whole"
    ELSE IF arg.file_given THEN "file"
    ELSE IF arg.dir_given THEN "directory"
    ELSE IF direct_file_analysis(arg, search, excl, sort_by) THEN "direct"
    ELSE IF arg.tree THEN "tree"
    ELSE IF arg.properties THEN "properties"
    ELSE IF arg.duplicates THEN "duplicates"
    ELSE "listing"

\* The mode a finished run was in; "none" where it left before any mode.
ModeRun ==
    CASE op \in {"version", "help"} -> op
      [] op \in {"disk_list", "disk_not_found", "disk_find_duplicates", "disk_print_tree",
                 "disk_collect_files"} -> "disk"
      [] op \in {"whole_no_path", "whole_not_exist", "whole_file", "whole_dir",
                 "whole_neither"} -> "whole"
      [] op \in {"file", "file_not_found", "file_not_file"} -> "file"
      [] op \in {"directory", "directory_not_found", "directory_not_dir"} -> "directory"
      [] op = "file_analysis" -> "direct"
      [] op \in {"print_tree", "tree_not_dir"} -> "tree"
      [] op \in {"properties_file", "properties_dir", "properties_not_exist"} ->
            "properties"
      [] op = "find_duplicates" -> "duplicates"
      [] op \in ListingModes -> "listing"
      [] OTHER -> "none"

\* The options with the flags of every mode below rank k taken away.
WithoutModesBelow(k) ==
    [arg EXCEPT !.whole = @ /\ ModeRank.whole <= k,
                !.file_given = @ /\ ModeRank.file <= k,
                !.dir_given = @ /\ ModeRank.directory <= k,
                !.tree = @ /\ ModeRank.tree <= k,
                !.properties = @ /\ ModeRank.properties <= k,
                !.duplicates = @ /\ ModeRank.duplicates <= k]

\* The run did what the same run without the flags of the lower modes does.
LowerFlagsIdle ==
    program_mode(WithoutModesBelow(ModeRank[StatedMode]), search, excl, sort_by) = op

\* The runs in which the duplicate detector ran.
DuplicateModes == {"find_duplicates", "disk_find_duplicates"}

\* The detector grouped every two regular files of equal length, whatever
\* their names.
AllFilesGrouped ==
    \A i, j \in DOMAIN fs :
        i # j /\ IsFile(fs, i) /\ IsFile(fs, j) /\ fs[i].len = fs[j].len =>
            \E k \in DOMAIN duplicates :
                /\ \E m \in DOMAIN duplicates[k].paths :
                      duplicates[k].paths[m] = EntryPath(fs, i)
                /\ \E m \in DOMAIN duplicates[k].paths :
                      duplicates[k].paths[m] = EntryPath(fs, j)

\* C27 as stated: every run is in the one mode the precedence selects, the
\* flags of lower modes change nothing, --properties with --duplicates never
\* runs the duplicate detector, and the detector applies no pattern.
C27_AsStated ==
    op # "none" =>
        /\ ModeRun = StatedMode
        /\ LowerFlagsIdle
        /\ arg.properties /\ arg.duplicates => op \notin DuplicateModes
        /\ op \in DuplicateModes => AllFilesGrouped

\* The run got past the tests made before a mode is entered: the size unit
\* after --help, the existence of the path after --directory.
PassedChecks ==
    /\ arg.version \/ arg.help \/ arg.size_ok
    /\ ModeRank[StatedMode] >= ModeRank.direct => path_exists(arg)

\* C27: a run that passes the size-unit and path checks is in the one mode
\* the precedence selects and a run that fails one is in none; outside disk
\* mode the flags of lower modes change nothing and --properties with
\* --duplicates never runs the duplicate detector; in disk mode --duplicates,
\* else --tree, choose what is done with the mount point; the detector
\* applies no pattern.
C27_Dispatch ==
    op # "none" =>
        /\ ModeRun = (IF PassedChecks THEN StatedMode ELSE "none")
        /\ ModeRun \notin {"none", "disk"} =>
              /\ LowerFlagsIdle
              /\ arg.properties /\ arg.duplicates => op \notin DuplicateModes
        /\ ModeRun = "disk" /\ arg.disk = "found" =>
              op = (IF arg.duplicates THEN "disk_find_duplicates"
                    ELSE IF arg.tree THEN "disk_print_tree"
                    ELSE "disk_collect_files")
        /\ ModeRun = "disk" /\ arg.disk = "found" =>
              /\ (out.tree # <<>>) => arg.tree /\ ~arg.duplicates
              /\ (duplicates # <<>>) => arg.duplicates
        /\ op \in DuplicateModes => AllFilesGrouped

\* --properties and --duplicates given with the name of a disk: the
\* detector ran on the mount point and found a group.
C27_Witness ==
    /\ op = "disk_find_duplicates"
    /\ arg.properties
    /\ arg.duplicates
    /\ duplicates # <<>>

\* --tree with --properties and --duplicates on a directory: the tree only.
C27_WitnessTree ==
    /\ op = "print_tree"
    /\ arg.properties
    /\ arg.duplicates
    /\ out.tree # <<>>
    /\ duplicates = <<>>

\* The detector grouped two files of which the search pattern matches one
\* and the exclusion pattern the other.
C27_WitnessPatterns ==
    /\ op = "find_duplicates"
    /\ IsSome(search)
    /\ IsSome(excl)
    /\ duplicates # <<>>
    /\ \E i \in DOMAIN fs : ~should_collect(search, fs[i].name)
    /\ \E i \in DOMAIN fs : is_excluded(excluding_regex(excl), fs[i].name)

\* An invalid size unit with the name of a disk: the run leaves before disk
\* mode.
C27_WitnessSizeUnit == op = "size_error" /\ arg.disk = "found" /\ exit = Some(1)

-----------------------------------------------------------------------------
(* C28: the compact format of format_unix_permissions                      *)

C28_WitnessWritable ==
    /\ op = "format_unix_permissions"
    /\ ~arg.detailed
    /\ mode_is_dir(arg.mode)
    /\ BitSet(arg.mode, 2) /\ BitSet(arg.mode, 64)
    /\ out = <<114, 119, 45>>

-----------------------------------------------------------------------------
(* C29: the result and the order of enumeration                            *)

\* The renumberings of the entries under which a directory still comes
\* before what it holds: every order in which the entries of each directory
\* can be enumerated.
Renumberings(f) ==
    {pi \in [DOMAIN f -> DOMAIN f] :
        /\ \A i, j \in DOMAIN f : i # j => pi[i] # pi[j]
        /\ \A i \in DOMAIN f : f[i].parent # 0 => pi[f[i].parent] < pi[i]}

\* The same content enumerated in the order pi.
Renumbered(f, pi) ==
    [j \in DOMAIN f |->
        LET i == CHOOSE i \in DOMAIN f : pi[i] = j
        IN  [f[i] EXCEPT !.parent = IF @ = 0 THEN 0 ELSE pi[@]]]

\* The walk that ran returns the same sequence however the content is
\* enumerated.
SameUnderEveryOrder == \A pi \in Renumberings(fs) : ResultOn(Renumbered(fs, pi)) = files

\* The walk that ran returns the same records, in whatever order.
SameRecordsUnderEveryOrder ==
    \A pi \in Renumberings(fs) :
        LET other == ResultOn(Renumbered(fs, pi))
        IN  /\ Len(other) = Len(files)
            /\ \A k \in DOMAIN files :
                  Occurrences(files[k], other) = Occurrences(files[k], files)

\* C29 as stated: a shallow collect under the Name criterion or none
\* returns the same sequence for every order of enumeration; every collect
\* returns the same records for every order of enumeration.
C29_AsStated ==
    /\ op \in ShallowOps /\ sort_by \in {None, Some("Name")} => SameUnderEveryOrder
    /\ op \in CollectOps => SameRecordsUnderEveryOrder

\* No two entries of one directory have the same name once converted.
NamesSurvive ==
    \A i, j \in DOMAIN fs :
        i # j /\ fs[i].parent = fs[j].parent => file_name(fs, i) # file_name(fs, j)

\* The same for directories whose names all survive the conversion to
\* text.
C29_ValidNames ==
    /\ op \in ShallowOps /\ sort_by \in {None, Some("Name")} /\ NamesSurvive
          => SameUnderEveryOrder
    /\ op \in CollectOps => SameRecordsUnderEveryOrder

\* A shallow collect under the Name criterion listed two files of different
\* sizes whose names are one after conversion: enumerated in the other
\* order they are listed in the other order.
C29_WitnessLossy ==
    /\ op = "collect_files"
    /\ sort_by = Some("Name")
    /\ ~NamesSurvive
    /\ ~SameUnderEveryOrder

\* A deep collect under the Name criterion, and a shallow one under the
\* Size criterion, on names that survive: the order of the records with
\* equal keys follows the order of enumeration.
C29_WitnessDeep ==
    /\ op = "collect_files_recursive"
    /\ sort_by = Some("Name")
    /\ NamesSurvive
    /\ ~SameUnderEveryOrder

C29_WitnessSize ==
    /\ op = "collect_files"
    /\ sort_by = Some("Size")
    /\ NamesSurvive
    /\ ~SameUnderEveryOrder

-----------------------------------------------------------------------------
(* C30: file-type statistics                                               *)

\* The records that are not directories, and those of them of type t.
Counted == {k \in DOMAIN files : ~files[k].is_directory}
OfType(t) == {k \in Counted : files[k].file_type = t}

\* The counts of the lines from the k-th on, added up.
RECURSIVE ListedFrom(_)
ListedFrom(k) == IF k > Len(out.lines) THEN 0 ELSE out.lines[k].count + ListedFrom(k + 1)

\* The records with their sizes as u64: a collect on a tree holds them as
\* numbers, a record set given outright as u64.
StatsInput ==
    IF fs = <<>> THEN files ELSE [k \in DOMAIN files |-> [files[k] EXCEPT !.size = ToU64(@)]]

\* The counting loop panicked.
StatsPanicked == op = "show_file_type_stats" /\ "panicked" \in DOMAIN out

\* The report is the stated one: only the records that are not directories
\* are counted; the lines are exactly the types other than "unknown" that
\* occur among them, each once, in non-increasing order of count, each
\* with the number of such records of that type and that number's share of
\* Total Files; Total Files is the number of records that are not
\* directories, so the listed counts and the "unknown" records add up to
\* it.  Nothing is printed where every record is a directory.
StatsAsStated ==
    IF Counted = {} THEN out = <<>>
    ELSE /\ "lines" \in DOMAIN out
         /\ out.total_files = Cardinality(Counted)
         /\ {out.lines[k].file_type : k \in DOMAIN out.lines}
               = {files[k].file_type : k \in Counted} \ {"unknown"}
         /\ \A k, m \in DOMAIN out.lines :
               k # m => out.lines[k].file_type # out.lines[m].file_type
         /\ \A k \in DOMAIN out.lines :
               /\ out.lines[k].count = Cardinality(OfType(out.lines[k].file_type))
               /\ out.lines[k].percentage
                     = percentage(out.lines[k].count, Cardinality(Counted))
         /\ \A k \in 1..(Len(out.lines) - 1) :
               out.lines[k].count >= out.lines[k + 1].count
         /\ ListedFrom(1) + Cardinality(OfType("unknown")) = out.total_files

\* C30 as stated: for every record set show_file_type_stats makes the
\* stated report.
C30_AsStated == op = "show_file_type_stats" => StatsAsStated

\* show_file_type_stats makes the stated report unless it panics, and it
\* panics exactly in a build with overflow checks on records that are not
\* directories whose sizes sum past u64::MAX.
C30_TypeStats ==
    op = "show_file_type_stats" =>
        /\ ~StatsPanicked => StatsAsStated
        /\ StatsPanicked <=> arg.overflow_checks /\ type_size_overflow(StatsInput)

\* Two files of u64::MAX bytes in a build with overflow checks: a panic and
\* no report.
C30_WitnessPanic ==
    /\ StatsPanicked
    /\ exit = Some(101)
    /\ Cardinality(Counted) = 2

\* The statistics of a directory, a file of unknown type and a file of a
\* known one: one line, of one file that is half of the two counted.
C30_Witness ==
    /\ op = "show_file_type_stats"
    /\ \E k \in DOMAIN files : files[k].is_directory
    /\ OfType("unknown") # {}
    /\ "lines" \in DOMAIN out
    /\ Len(out.lines) = 1
    /\ out.lines[1].count = 1
    /\ out.lines[1].percentage = 500
    /\ out.total_files = 2

\* Two types of which one is the more frequent: it is listed first.
C30_WitnessOrder ==
    /\ op = "show_file_type_stats"
    /\ "lines" \in DOMAIN out
    /\ Len(out.lines) = 2
    /\ out.lines[1].count = 2
    /\ out.lines[2].count = 1
    /\ out.lines[1].file_type = "image/png"

\* Two types as frequent as each other, listed in either order.
C30_WitnessTie ==
    /\ op = "show_file_type_stats"
    /\ "lines" \in DOMAIN out
    /\ Len(out.lines) = 2
    /\ out.lines[1].count = out.lines[2].count
    /\ out.lines[1].file_type = "image/png"
====
